---- MODULE Spec2Model ----
(***************************************************************************)
(* Model of the PocketPlans plan engine, app/api/plan/route.ts: the POST   *)
(* handler (candidate retrieval, option building, scoring, feasibility     *)
(* filtering, shortlist selection, swap pool) and the Redis-backed rate    *)
(* limiter in front of it.                                                 *)
(*                                                                         *)
(* Units.  Instants are epoch milliseconds, as in the code.  Distances are *)
(* whole kilometres: a coordinate is a position on the meridian through    *)
(* the city centre, so haversineKm is the absolute difference.  A rating   *)
(* is kept in tenths (4.5 is 45), which makes the score term rating * 10   *)
(* the stored number; scores are whole points.                             *)
(***************************************************************************)
EXTENDS Integers, Sequences, FiniteSets, TLC

(***************************************************************************)
(* Program constants                                                       *)
(***************************************************************************)
NULL == 0 - 1

MIN_REMAINING_MIN == 75
RELAXED_REMAINING_MIN == 45
MAX_DIST_KM_SHORTLIST == 10
MAX_DIST_KM_SWAP == 14
MAX_SEEN_IDS == 220
MAX_SWAPPED_IDS == 220
TARGET_SWAP_POOL == 26
MAX_POOL_RETURN == 60
DETAILS_CAP_TOTAL == 55
DETAILS_CONCURRENCY == 10
LANE_CONCURRENCY == 6
CANDIDATE_STOP == 140
TOP_N == 30
SHORTLIST_SIZE == 5
(* Mutant of the shortlist category cap: 3 per category. *)
ShortlistCatCapThree == SHORTLIST_SIZE - 2
SHORTLIST_CAT_CAP == 2
POOL_CAT_CAP == 6
MS_PER_MIN == 60000
MS_PER_HOUR == 60 * MS_PER_MIN
DAY_MIN == 1440
(* CITY_CENTERS[city]: the centre is the origin of the meridian. *)
CENTER == 0

Vibes == {"Cozy", "Outdoors", "Productive", "Social", "Luxury"}

ALLOWED_BY_VIBE ==
  [v \in Vibes |->
     CASE v = "Cozy"       -> <<"Cafe", "Dessert", "Bookstore", "Wine Bar", "Tea House">>
       [] v = "Outdoors"   -> <<"Park", "Scenic Walk", "Waterfront", "Outdoor Market", "Activity">>
       [] v = "Productive" -> <<"Library", "Work Cafe", "Quiet Workspace", "Study Spot">>
       [] v = "Social"     -> <<"Bar", "Group Dining", "Activity Venue", "Event Space">>
       [] v = "Luxury"     -> <<"Fine Dining", "Rooftop Bar", "Specialty Dessert", "Premium Spot">>]

Range(s) == {s[i] : i \in DOMAIN s}

AllowedSet(v) == Range(ALLOWED_BY_VIBE[v])

Categories == UNION {AllowedSet(v) : v \in Vibes} \cup {"Venue", "Restaurant"}

(* Mutant of pickDefaultVibe: the wrong default vibe. *)
pickDefaultVibeCozy(v) == IF v \in Vibes THEN v ELSE "Cozy"

(* pickDefaultVibe: an unrecognised or missing vibe becomes Social. *)
pickDefaultVibe(v) == IF v \in Vibes THEN v ELSE "Social"

(***************************************************************************)
(* String.includes on lower-cased category names.  A category is the       *)
(* sequence of its lower-case words; a needle occurs in it when its words  *)
(* occur consecutively, a single word also matching a longer word that     *)
(* contains it (water in waterfront, book in bookstore).                   *)
(***************************************************************************)
Words(c) ==
  CASE c = "Cafe"              -> <<"cafe">>
    [] c = "Dessert"           -> <<"dessert">>
    [] c = "Bookstore"         -> <<"bookstore">>
    [] c = "Wine Bar"          -> <<"wine", "bar">>
    [] c = "Tea House"         -> <<"tea", "house">>
    [] c = "Park"              -> <<"park">>
    [] c = "Scenic Walk"       -> <<"scenic", "walk">>
    [] c = "Waterfront"        -> <<"waterfront">>
    [] c = "Outdoor Market"    -> <<"outdoor", "market">>
    [] c = "Activity"          -> <<"activity">>
    [] c = "Library"           -> <<"library">>
    [] c = "Work Cafe"         -> <<"work", "cafe">>
    [] c = "Quiet Workspace"   -> <<"quiet", "workspace">>
    [] c = "Study Spot"        -> <<"study", "spot">>
    [] c = "Bar"               -> <<"bar">>
    [] c = "Group Dining"      -> <<"group", "dining">>
    [] c = "Activity Venue"    -> <<"activity", "venue">>
    [] c = "Event Space"       -> <<"event", "space">>
    [] c = "Fine Dining"       -> <<"fine", "dining">>
    [] c = "Rooftop Bar"       -> <<"rooftop", "bar">>
    [] c = "Specialty Dessert" -> <<"specialty", "dessert">>
    [] c = "Premium Spot"      -> <<"premium", "spot">>
    [] c = "Venue"             -> <<"venue">>
    [] c = "Restaurant"        -> <<"restaurant">>

PartOfWord == {<<"water", "waterfront">>, <<"book", "bookstore">>}

Includes(c, needle) ==
  LET w == Words(c)
      n == Len(needle)
      WordAt(i, k) == \/ w[i + k - 1] = needle[k]
                      \/ n = 1 /\ <<needle[k], w[i + k - 1]>> \in PartOfWord
  IN \E i \in 1..(Len(w) - n + 1) : \A k \in 1..n : WordAt(i, k)

isOutdoorishCategory(c) ==
  \/ Includes(c, <<"park">>)
  \/ Includes(c, <<"walk">>)
  \/ Includes(c, <<"water">>)
  \/ Includes(c, <<"outdoor">>)
  \/ Includes(c, <<"waterfront">>)
  \/ Includes(c, <<"scenic">>)
  \/ Includes(c, <<"market">>)
  \/ Includes(c, <<"activity">>)

(***************************************************************************)
(* googleTypeToInternalCategory: provider type tags -> internal category.  *)
(***************************************************************************)
FirstAllowed(vibe, dflt) == IF vibe \in Vibes THEN ALLOWED_BY_VIBE[vibe][1] ELSE dflt

googleTypeToInternalCategory(t, vibe) ==
  LET allowed == IF vibe \in Vibes THEN AllowedSet(vibe) ELSE AllowedSet("Social")
      has(x) == x \in t
  IN
  IF has("bar") \/ has("night_club")
    THEN (IF "Bar" \in allowed THEN "Bar" ELSE FirstAllowed(vibe, "Venue"))
  ELSE IF has("bowling_alley") \/ has("movie_theater") \/ has("amusement_park") \/ has("casino")
    THEN (IF "Activity Venue" \in allowed THEN "Activity Venue" ELSE FirstAllowed(vibe, "Activity"))
  ELSE IF has("restaurant")
    THEN (IF "Group Dining" \in allowed THEN "Group Dining"
          ELSE IF "Fine Dining" \in allowed THEN "Fine Dining"
          ELSE IF "Work Cafe" \in allowed THEN "Work Cafe"
          ELSE IF "Study Spot" \in allowed THEN "Study Spot"
          ELSE IF "Cafe" \in allowed THEN "Cafe" ELSE FirstAllowed(vibe, "Restaurant"))
  ELSE IF has("cafe")
    THEN (IF "Work Cafe" \in allowed THEN "Work Cafe"
          ELSE IF "Cafe" \in allowed THEN "Cafe" ELSE FirstAllowed(vibe, "Cafe"))
  ELSE IF has("bakery")
    THEN (IF "Dessert" \in allowed THEN "Dessert" ELSE FirstAllowed(vibe, "Dessert"))
  ELSE IF has("library")
    THEN (IF "Library" \in allowed THEN "Library" ELSE FirstAllowed(vibe, "Study Spot"))
  ELSE IF has("book_store")
    THEN (IF "Bookstore" \in allowed THEN "Bookstore" ELSE FirstAllowed(vibe, "Bookstore"))
  ELSE IF has("park")
    THEN (IF "Park" \in allowed THEN "Park" ELSE FirstAllowed(vibe, "Park"))
  ELSE IF (has("tourist_attraction") \/ has("point_of_interest"))
          /\ (\E c \in {"Scenic Walk", "Waterfront", "Activity"} : c \in allowed)
    THEN (IF "Scenic Walk" \in allowed THEN "Scenic Walk"
          ELSE IF "Waterfront" \in allowed THEN "Waterfront" ELSE "Activity")
  ELSE IF (has("museum") \/ has("art_gallery") \/ has("stadium") \/ has("theater"))
          /\ (\E c \in {"Event Space", "Activity Venue", "Activity"} : c \in allowed)
    THEN (IF "Event Space" \in allowed THEN "Event Space"
          ELSE IF "Activity Venue" \in allowed THEN "Activity Venue" ELSE "Activity")
  ELSE FirstAllowed(vibe, "Cafe")

(***************************************************************************)
(* Bounds of the model                                                     *)
(***************************************************************************)
(* Number of venues the place provider knows (identifiers 1..MaxPlaces). *)
MaxPlaces == 25
(* Math.random() jitter sequences tried per request (seeds 0..MaxSeed). *)
MaxSeed == 1

(***************************************************************************)
(* Generic helpers                                                         *)
(***************************************************************************)
Min2(a, b) == IF a < b THEN a ELSE b
Max2(a, b) == IF a > b THEN a ELSE b
Abs(x) == IF x < 0 THEN -x ELSE x

(* Array.prototype.reduce((a, b) => a + b, 0) *)
RECURSIVE SumSeq(_)
SumSeq(s) == IF s = <<>> THEN 0 ELSE Head(s) + SumSeq(Tail(s))

(* clamp(n, min, max) *)
clamp(n, lo, hi) == Max2(lo, Min2(hi, n))

(* Array.prototype.filter *)
RECURSIVE FilterSeq(_, _)
FilterSeq(s, keep) ==
  IF s = <<>> THEN <<>>
  ELSE (IF Head(s) \in keep THEN <<Head(s)>> ELSE <<>>) \o FilterSeq(Tail(s), keep)

(* Array.prototype.slice(0, n) *)
Take(s, n) == SubSeq(s, 1, Min2(n, Len(s)))

(* Array.prototype.map result held as an array: the elements computed once. *)
AsArray(f) == SubSeq(f, 1, Len(f))

(* Array.prototype.sort, stable; less[i][j] is cmp(s[i], s[j]) < 0 for the
   comparator cmp the caller sorts with. *)
SortBy(s, less) ==
  LET arr == AsArray(s)
      cmp == AsArray(less)
      n == Len(arr)
      before(j, i) == \/ cmp[j][i]
                      \/ ~cmp[i][j] /\ j < i
      rank == AsArray([i \in 1..n |-> Cardinality({j \in 1..n : j # i /\ before(j, i)}) + 1])
  IN AsArray([p \in 1..n |-> arr[CHOOSE i \in 1..n : rank[i] = p]])

(* The comparator table of an array under the order lt on the keys the
   comparator reads (each key a tuple compared left to right). *)
LexLess(a, b) ==
  \E k \in 1..Len(a) : a[k] < b[k] /\ \A h \in 1..(k - 1) : a[h] = b[h]
Comparisons(keys) ==
  LET ks == AsArray(keys)
  IN AsArray([i \in 1..Len(ks) |-> AsArray([j \in 1..Len(ks) |-> LexLess(ks[i], ks[j])])])

PlaceIdOf(x) == x.placeId

(* Keep the first element of each placeId, in order (the Set-based dedupe loops). *)
DedupeBy(s) ==
  LET arr == AsArray(s)
      keep == {i \in 1..Len(arr) :
                 \A j \in 1..(i - 1) : PlaceIdOf(arr[j]) # PlaceIdOf(arr[i])}
      nth == AsArray([i \in 1..Len(arr) |-> Cardinality({j \in keep : j <= i})])
  IN AsArray([p \in 1..Cardinality(keep) |-> arr[CHOOSE i \in keep : nth[i] = p]])

(***************************************************************************)
(* Clock arithmetic                                                        *)
(***************************************************************************)
(* Date.getUTCHours of an instant *)
UTCHours(ms) == (ms \div MS_PER_HOUR) % 24

(* cityLocalNow / cityNowFromOffset: Date.now() + tzOffsetSec * 1000 *)
cityLocalNow(tzOffsetSec, nowMs) == nowMs + tzOffsetSec * 1000

(* minutesSinceMidnight(d) = getUTCHours * 60 + getUTCMinutes *)
minutesSinceMidnight(ms) == (ms \div MS_PER_MIN) % DAY_MIN

(* A closing label "h:mm AM|PM" is the record of its three parts. *)
NoLabel == [h |-> 0, m |-> 0, pm |-> FALSE]

formatMinutesToLabel(mins) ==
  LET h24 == (mins \div 60) % 24
  IN [h |-> IF h24 % 12 = 0 THEN 12 ELSE h24 % 12, m |-> mins % 60, pm |-> h24 >= 12]

parseClosingTimeToMinutes(label) ==
  IF label = NoLabel THEN NULL
  ELSE LET hour == IF label.pm /\ label.h # 12 THEN label.h + 12
                   ELSE IF ~label.pm /\ label.h = 12 THEN 0
                   ELSE label.h
       IN hour * 60 + label.m

(* minutesUntilClose(cityNow, closingTime, closeTs), Date.now() being nowMs *)
minutesUntilClose(cityNow, closingTime, closeTs, nowMs) ==
  IF closeTs # NULL
    THEN (IF closeTs - nowMs > 0 THEN (closeTs - nowMs) \div MS_PER_MIN ELSE 0)
  ELSE LET closeMin == parseClosingTimeToMinutes(closingTime)
           nowMin == minutesSinceMidnight(cityNow)
       IN IF closeMin = NULL THEN NULL
          ELSE IF closeMin >= nowMin THEN closeMin - nowMin
          ELSE 24 * 60 - nowMin + closeMin

(* haversineKm on the meridian through the centre *)
haversineKm(a, b) == Abs(a - b)

(* The keys the three comparators of the handler read. *)
DistanceKeys(arr, center) ==
  [k \in DOMAIN arr |-> <<haversineKm(center, arr[k].pos)>>]
NotSeenFirstKeys(arr, seenSet, center) ==
  [k \in DOMAIN arr |->
     <<IF arr[k].placeId \in seenSet THEN 1 ELSE 0, haversineKm(center, arr[k].pos)>>]
ScoreKeys(arr) ==
  [k \in DOMAIN arr |-> <<0 - arr[k].score>>]

(***************************************************************************)
(* Request sanitising                                                      *)
(***************************************************************************)
(* A raw JSON array element: a string (its trimmed text is the identifier  *)
(* id, 0 for an empty or blank string; padded when it carries surrounding  *)
(* white space) or some other JSON value.                                  *)
StrEntry(id) == [kind |-> "string", id |-> id, padded |-> FALSE]
PaddedEntry(id) == [kind |-> "string", id |-> id, padded |-> TRUE]
OtherEntry == [kind |-> "other", id |-> 0, padded |-> FALSE]

(* Mutant of sanitizeIdList: no trim, a padded string never matches an id. *)
sanitizeIdListNoTrim(x, cap) ==
  IF ~x.isArray THEN <<>>
  ELSE LET kept == SelectSeq(x.items, LAMBDA v : v.kind = "string" /\ v.id # 0 /\ ~v.padded)
       IN [i \in 1..Min2(Len(kept), Max2(cap, 1)) |-> kept[i].id]

(* sanitizeIdList(x, cap); x = [isArray, items].  The loop keeps the trimmed,
   non-empty strings in order and breaks once it has pushed cap of them. *)
sanitizeIdList(x, cap) ==
  IF ~x.isArray THEN <<>>
  ELSE LET kept == SelectSeq(x.items, LAMBDA v : v.kind = "string" /\ v.id # 0)
       IN [i \in 1..Min2(Len(kept), Max2(cap, 1)) |-> kept[i].id]

(***************************************************************************)
(* The place provider: what search lanes and the details endpoint answer.  *)
(* A venue has provider type tags, a position (pos, from search results;   *)
(* dpos, the geometry of its details record, NULL when absent), the        *)
(* tri-state opening_hours.open_now, a business status, the minute of the  *)
(* day (UTC) its active opening period closes (NULL: no period data), a    *)
(* rating in tenths (NULL: none), a rating count (NULL: none) and the      *)
(* vibes whose search lanes return it.                                     *)
(***************************************************************************)
Venue(types, pos, dpos, openNow, status, closesAt, rating, count, lanes) ==
  [types |-> types, pos |-> pos, dpos |-> dpos, openNow |-> openNow, status |-> status,
   closesAt |-> closesAt, rating |-> rating, count |-> count, lanes |-> lanes]

At(hh, mm) == hh * 60 + mm

NamedVenues ==
  << Venue({"library"}, 2, 2, "false", "OPERATIONAL", NULL, 44, 99, {"Productive", "Cozy"}),
     Venue({"restaurant"}, 3, 3, "true", "OPERATIONAL", At(14, 0), 45, 999, {"Social", "Cozy", "Luxury"}),
     Venue({"bakery"}, 4, 4, "true", "OPERATIONAL", At(13, 30), 46, 99, {"Cozy"}),
     Venue({"book_store"}, 6, 6, "true", "OPERATIONAL", At(13, 15), 44, 99, {"Cozy", "Productive"}),
     Venue({"museum", "tourist_attraction"}, 10, 10, "true", "OPERATIONAL", At(15, 0), 47, 999, {"Social", "Outdoors"}),
     Venue({"bowling_alley"}, 8, 8, "true", "OPERATIONAL", At(14, 30), 42, 99, {"Social"}),
     Venue({"cafe"}, 1, 1, "true", "OPERATIONAL", At(15, 20), 45, 99, {"Cozy", "Productive"}),
     Venue({"bar"}, 5, 5, "true", "OPERATIONAL", At(13, 0), 43, 999, {"Social", "Luxury"}),
     Venue({"park"}, 5, 5, "unknown", "OPERATIONAL", NULL, NULL, NULL, {"Outdoors"}),
     Venue({"tourist_attraction", "point_of_interest"}, 12, 12, "true", "OPERATIONAL", At(12, 45), 52, 9, {"Outdoors", "Social"}),
     Venue({"night_club"}, 15, 15, "true", "OPERATIONAL", At(17, 0), 39, 99, {"Social"}),
     Venue({"cafe", "bakery"}, 9, NULL, "true", "OPERATIONAL", NULL, NULL, NULL, {"Cozy"}),
     Venue({"bakery"}, 3, 3, "true", "OPERATIONAL", At(12, 30), 45, 99, {"Cozy"}),
     Venue({"restaurant"}, 2, 2, "unknown", "CLOSED_PERMANENTLY", NULL, 40, 9, {"Social"}) >>

(* Further venues: open until 13:10, of rotating kinds. *)
OtherTypes == << {"cafe"}, {"restaurant"}, {"bakery"}, {"museum"}, {"park"}, {"art_gallery"} >>

Place(i) ==
  IF i <= Len(NamedVenues) THEN NamedVenues[i]
  ELSE Venue(OtherTypes[(i % Len(OtherTypes)) + 1], 7 + (i % 7), 7 + (i % 7), "true", "OPERATIONAL",
             At(13, 10), 41 + (i % 9), 9, {"Cozy", "Social"})

PlaceIds == 1..MaxPlaces

(* One vibe's lane battery, merged and deduplicated: GoogleCandidate records. *)
collectCandidatesMultiLane(vibeForLanes) ==
  LET ids == {i \in PlaceIds : vibeForLanes \in Place(i).lanes}
      asSeq == [i \in PlaceIds |-> i]
      cand(i) == [placeId |-> i, pos |-> Place(i).pos]
      hits == FilterSeq(asSeq, ids)
  IN [k \in 1..Len(hits) |-> cand(hits[k])]

(***************************************************************************)
(* Lane queries                                                            *)
(***************************************************************************)
KEYWORD_BY_CATEGORY(c) ==
  CASE c = "Cafe"              -> "cafe"
    [] c = "Work Cafe"         -> "cafe laptop friendly"
    [] c = "Dessert"           -> "dessert"
    [] c = "Bookstore"         -> "bookstore"
    [] c = "Wine Bar"          -> "wine bar"
    [] c = "Tea House"         -> "tea house"
    [] c = "Library"           -> "library"
    [] c = "Quiet Workspace"   -> "coworking space"
    [] c = "Study Spot"        -> "study cafe"
    [] c = "Bar"               -> "bar"
    [] c = "Group Dining"      -> "restaurant"
    [] c = "Fine Dining"       -> "fine dining"
    [] c = "Rooftop Bar"       -> "rooftop bar"
    [] c = "Activity Venue"    -> "arcade bowling"
    [] c = "Event Space"       -> "museum"
    [] c = "Park"              -> "park"
    [] c = "Scenic Walk"       -> "scenic walk"
    [] c = "Waterfront"        -> "waterfront"
    [] c = "Outdoor Market"    -> "outdoor market"
    [] c = "Activity"          -> "things to do"
    [] c = "Specialty Dessert" -> "dessert"
    [] c = "Premium Spot"      -> "premium lounge"
    [] OTHER                   -> c

(* The keywords of the table in which one of restaurant, fine dining, cafe,
   dessert, rooftop, wine bar, bar occurs. *)
isFood(kw) ==
  kw \in {"cafe", "cafe laptop friendly", "dessert", "wine bar", "study cafe", "bar", "restaurant",
          "fine dining", "rooftop bar"}

toLowerCase(v) ==
  CASE v = "Cozy" -> "cozy"
    [] v = "Outdoors" -> "outdoors"
    [] v = "Productive" -> "productive"
    [] v = "Social" -> "social"
    [] v = "Luxury" -> "luxury"
    [] OTHER -> v

(* Array.from(new Set(s)): first occurrences, in order. *)
ArrayFromSet(s) ==
  LET keep == {i \in DOMAIN s : \A j \in 1..(i - 1) : s[j] # s[i]}
  IN [p \in 1..Cardinality(keep) |-> s[CHOOSE i \in keep : Cardinality({j \in keep : j <= i}) = p]]

NEARBY_LANES == 8
TEXT_LANES == 10

buildLaneQueries(vibe, vegFriendly) ==
  LET allowed == IF vibe \in Vibes THEN ALLOWED_BY_VIBE[vibe] ELSE ALLOWED_BY_VIBE["Social"]
      baseNearby == [i \in DOMAIN allowed |-> KEYWORD_BY_CATEGORY(allowed[i])]
      vegNearby == [i \in DOMAIN baseNearby |->
                      IF isFood(baseNearby[i]) THEN baseNearby[i] \o " vegetarian" ELSE baseNearby[i]]
      baseText ==
        CASE vibe = "Productive" -> <<"coworking", "study cafe", "quiet cafe", "work cafe", "library",
                                      "coffee shop laptop", "wifi cafe">>
          [] vibe = "Cozy"       -> <<"cozy cafe", "tea house", "dessert cafe", "bookstore cafe", "quiet cafe">>
          [] vibe = "Social"     -> <<"cocktail bar", "bar", "fun activity", "arcade", "group dining">>
          [] vibe = "Outdoors"   -> <<"park", "waterfront", "scenic walk", "outdoor market">>
          [] vibe = "Luxury"     -> <<"fine dining", "rooftop bar", "tasting menu", "premium lounge">>
          [] OTHER               -> <<>>
      vegText == IF vegFriendly
                 THEN <<"vegetarian restaurant", "vegan restaurant", "vegetarian cafe", "vegan cafe",
                        "plant based restaurant">>
                 ELSE <<>>
  IN [nearbyKeywords |->
        Take((IF vegFriendly THEN vegNearby ELSE baseNearby) \o <<toLowerCase(vibe) \o " spots">>, NEARBY_LANES),
      textQueries |-> Take(ArrayFromSet(vegText \o baseText \o baseNearby), TEXT_LANES)]

(* allJobs of collectCandidatesMultiLane: the nearby lanes, then the text lanes. *)
allJobs(vibeForLanes, vegFriendly) ==
  LET q == buildLaneQueries(vibeForLanes, vegFriendly)
  IN [k \in DOMAIN q.nearbyKeywords |-> [lane |-> "nearby", q |-> q.nearbyKeywords[k]]]
       \o [k \in DOMAIN q.textQueries |-> [lane |-> "text", q |-> q.textQueries[k]]]

(* A weekly opening period of the provider: open and close as day of the
   week (0 Sunday) and time "HHMM" (the number the digits spell); NULL day
   and time for a part the provider left out. *)
PeriodEnd(day, time) == [day |-> day, time |-> time]
NoEnd == PeriodEnd(NULL, NULL)
Period(open, close) == [open |-> open, close |-> close]

(* parseHHMM: hours from the first two digits, minutes from the rest. *)
parseHHMM(raw) == (raw \div 100) * 60 + (raw % 100)

(* Date.getUTCDay of an instant; 1 January 1970 was a Thursday. *)
UTCDay(ms) == (4 + ms \div (DAY_MIN * MS_PER_MIN)) % 7

WEEK == 7 * DAY_MIN

(* nowDay * 1440 + nowMinOfDay of the city-local now. *)
NowW(tzOffsetSec, nowMs) ==
  UTCDay(cityLocalNow(tzOffsetSec, nowMs)) * DAY_MIN
    + minutesSinceMidnight(cityLocalNow(tzOffsetSec, nowMs))

(* Mutant of periodMinsLeft: the week-wrapped instant is not tried. *)
periodMinsLeftNoWrap(p, nowW) ==
  IF p.open.day = NULL \/ p.open.time = NULL \/ p.close.day = NULL \/ p.close.time = NULL THEN NULL
  ELSE LET openW == p.open.day * DAY_MIN + parseHHMM(p.open.time)
           closeW0 == p.close.day * DAY_MIN + parseHHMM(p.close.time)
           closeW == IF closeW0 <= openW THEN closeW0 + WEEK ELSE closeW0
           in1 == openW <= nowW /\ nowW < closeW
       IN IF ~in1 THEN NULL
          ELSE IF closeW - nowW <= 0 THEN NULL
          ELSE closeW - nowW

(* The body of the loop of getActivePeriodClose for one period: minsLeft, NULL
   when the loop continues. *)
periodMinsLeft(p, nowW) ==
  IF p.open.day = NULL \/ p.open.time = NULL \/ p.close.day = NULL \/ p.close.time = NULL THEN NULL
  ELSE LET openW == p.open.day * DAY_MIN + parseHHMM(p.open.time)
           closeW0 == p.close.day * DAY_MIN + parseHHMM(p.close.time)
           closeW == IF closeW0 <= openW THEN closeW0 + WEEK ELSE closeW0
           in1 == openW <= nowW /\ nowW < closeW
           in2 == openW <= nowW + WEEK /\ nowW + WEEK < closeW
           effectiveNow == IF in1 THEN nowW ELSE nowW + WEEK
       IN IF ~in1 /\ ~in2 THEN NULL
          ELSE IF closeW - effectiveNow <= 0 THEN NULL
          ELSE closeW - effectiveNow

NoClose == [found |-> FALSE, closingTimeLabel |-> NoLabel, closeTs |-> NULL]

(* getActivePeriodClose(periods, tzOffsetSec): the period with the smallest
   minsLeft among those the loop keeps; null (NoClose) when it keeps none. *)
getActivePeriodClose(periods, tzOffsetSec, nowMs) ==
  LET lefts == {periodMinsLeft(periods[k], NowW(tzOffsetSec, nowMs)) : k \in DOMAIN periods} \ {NULL}
      best == CHOOSE m \in lefts : \A n \in lefts : m <= n
  IN IF lefts = {} THEN NoClose
     ELSE [found |-> TRUE,
           closingTimeLabel |->
             formatMinutesToLabel((minutesSinceMidnight(cityLocalNow(tzOffsetSec, nowMs)) + best) % DAY_MIN),
           closeTs |-> nowMs + best * MS_PER_MIN]

(* The closing time fetchPlaceDetailsById gives a venue: computed only when
   opening_hours.open_now is true and periods is a non-empty array. *)
closingOf(openNow, periods, tzOffsetSec, nowMs) ==
  IF openNow = "true" /\ Len(periods) > 0 THEN getActivePeriodClose(periods, tzOffsetSec, nowMs)
  ELSE NoClose

(* A time of day in minutes as the provider writes it. *)
HHMM(mins) == (mins \div 60) * 100 + (mins % 60)

(* The schedule the provider reports, in the local time of a city at offset
   tzOffsetSec, for a venue open from Thursday 0:00 until minute closesAt
   (UTC) of Thursday 1 January 1970; none when closesAt is NULL. *)
PeriodsOf(closesAt, tzOffsetSec) ==
  IF closesAt = NULL THEN <<>>
  ELSE LET m == 4 * DAY_MIN + closesAt + tzOffsetSec \div 60
       IN << Period(PeriodEnd(4, 0), PeriodEnd((m \div DAY_MIN) % 7, HHMM(m % DAY_MIN))) >>

(* fetchPlaceDetailsById: the details payload of a venue. *)
fetchPlaceDetailsById(placeId, tzOffsetSec, nowMs) ==
  LET r == Place(placeId)
      active == closingOf(r.openNow, PeriodsOf(r.closesAt, tzOffsetSec), tzOffsetSec, nowMs)
  IN [placeId |-> placeId, rating |-> r.rating, userRatingsTotal |-> r.count, types |-> r.types,
      openNow |-> r.openNow, businessStatus |-> r.status,
      closingTime |-> active.closingTimeLabel, closeTs |-> active.closeTs, pos |-> r.dpos]

(***************************************************************************)
(* Calls that leave the server: Redis cache, provider, forecast            *)
(***************************************************************************)
(* fetchWithTimeout and what follows it at a call site f names: the fetch
   rejects (network error, abort by the timer), answers non-OK, answers a
   body that is not JSON, answers JSON without results (a search) or without
   a result that has place_id and name (details), or answers. *)
FetchOutcome(site, f) == IF f.site = site THEN f.kind ELSE "ok"

NoText == [json |-> "none", value |-> <<>>]

(* redisGet: throws when redisPipeline does, else the string under the key,
   null when there is none. *)
redisGet(key, entries, f) ==
  IF FetchOutcome("redisGet", f) # "ok" THEN [threw |-> TRUE, text |-> NoText]
  ELSE IF \E e \in entries : e.key = key
    THEN [threw |-> FALSE, text |-> (CHOOSE e \in entries : e.key = key).text]
  ELSE [threw |-> FALSE, text |-> NoText]

(* redisSetPx: throws when redisPipeline does, else the key holds the text. *)
redisSetPx(key, text, f) ==
  IF FetchOutcome("redisSet", f) # "ok" THEN [threw |-> TRUE, wrote |-> {}]
  ELSE [threw |-> FALSE, wrote |-> {[key |-> key, text |-> text]}]

(* The entries after the writes of a batch of calls have landed. *)
Stored(entries, wrote) == {e \in entries : \A w \in wrote : w.key # e.key} \cup wrote

(* Mutant of LaneSearch: the cache write is not guarded. *)
LaneSearchWriteThrows(job, answer, entries, redis, f) ==
  LET key == [lane |-> job.lane, q |-> job.q]
      read == IF redis THEN redisGet(key, entries, f) ELSE [threw |-> FALSE, text |-> NoText]
      net == FetchOutcome(job.lane, f)
      listed == IF net = "noResult" THEN <<>> ELSE answer
      write == IF redis THEN redisSetPx(key, [json |-> "array", value |-> listed], f)
               ELSE [threw |-> FALSE, wrote |-> {}]
  IN IF read.threw THEN [threw |-> TRUE, value |-> <<>>, wrote |-> {}]
     ELSE IF read.text.json = "array" THEN [threw |-> FALSE, value |-> read.text.value, wrote |-> {}]
     ELSE IF net = "throws" THEN [threw |-> TRUE, value |-> <<>>, wrote |-> {}]
     ELSE IF net \in {"nonOk", "badJson"} THEN [threw |-> FALSE, value |-> <<>>, wrote |-> {}]
     ELSE [threw |-> write.threw, value |-> IF write.threw THEN <<>> ELSE listed, wrote |-> write.wrote]

(* Mutant of LaneSearch: the empty list of a failed request is cached too. *)
LaneSearchCachesFailure(job, answer, entries, redis, f) ==
  LET key == [lane |-> job.lane, q |-> job.q]
      read == IF redis THEN redisGet(key, entries, f) ELSE [threw |-> FALSE, text |-> NoText]
      net == FetchOutcome(job.lane, f)
      listed == IF net = "noResult" THEN <<>> ELSE answer
      write == IF redis THEN redisSetPx(key, [json |-> "array", value |-> listed], f)
               ELSE [threw |-> FALSE, wrote |-> {}]
  IN IF read.threw THEN [threw |-> TRUE, value |-> <<>>, wrote |-> {}]
     ELSE IF read.text.json = "array" THEN [threw |-> FALSE, value |-> read.text.value, wrote |-> {}]
     ELSE IF net = "throws" THEN [threw |-> TRUE, value |-> <<>>, wrote |-> {}]
     ELSE IF net \in {"nonOk", "badJson"}
       THEN [threw |-> FALSE, value |-> <<>>,
             wrote |-> IF redis THEN redisSetPx(key, [json |-> "array", value |-> <<>>], f).wrote ELSE {}]
     ELSE [threw |-> FALSE, value |-> listed, wrote |-> write.wrote]

(* googleNearbySearch and googleTextSearch (allowCache: true) for one lane:
   cache read, provider request, cache write.  answer is what the provider
   has for the lane. *)
LaneSearch(job, answer, entries, redis, f) ==
  LET key == [lane |-> job.lane, q |-> job.q]
      read == IF redis THEN redisGet(key, entries, f) ELSE [threw |-> FALSE, text |-> NoText]
      net == FetchOutcome(job.lane, f)
      listed == IF net = "noResult" THEN <<>> ELSE answer
      write == IF redis THEN redisSetPx(key, [json |-> "array", value |-> listed], f)
               ELSE [threw |-> FALSE, wrote |-> {}]
  IN IF read.threw THEN [threw |-> TRUE, value |-> <<>>, wrote |-> {}]
     ELSE IF read.text.json = "array" THEN [threw |-> FALSE, value |-> read.text.value, wrote |-> {}]
     ELSE IF net = "throws" THEN [threw |-> TRUE, value |-> <<>>, wrote |-> {}]
     ELSE IF net \in {"nonOk", "badJson"} THEN [threw |-> FALSE, value |-> <<>>, wrote |-> {}]
     ELSE [threw |-> FALSE, value |-> listed, wrote |-> write.wrote]

(* The queries of the other vibes' batteries. *)
OtherJobs(vibeForLanes, vegFriendly) ==
  UNION {Range(allJobs(u, vegFriendly)) : u \in Vibes \ {vibeForLanes}}

(* For each lane, how many lanes up to it ask a query no other vibe asks. *)
OwnRank(items, elsewhere) ==
  AsArray([k \in DOMAIN items |-> Cardinality({j \in 1..k : items[j] \notin elsewhere})])

(* The k-th run of size venues, after the last venue of the run before it. *)
LaneRun(all, size, k) ==
  (IF k > 1 /\ size > 0 /\ (k - 1) * size <= Len(all) THEN <<all[(k - 1) * size]>> ELSE <<>>)
    \o SubSeq(all, Min2((k - 1) * size, Len(all)) + 1, Min2(k * size, Len(all)))

LaneRuns(all, items, elsewhere, own) ==
  AsArray([k \in DOMAIN items |->
             IF items[k] \in elsewhere THEN <<>>
             ELSE LaneRun(all, (Len(all) + own[Len(items)] - 1) \div own[Len(items)], own[k])])

(* What the provider answers on each lane of a vibe: nothing to a query that
   another vibe asks too; to the others the venues of the vibe in runs, each
   lane repeating the last venue of the lane before it. *)
LaneAnswers(vibeForLanes, vegFriendly) ==
  LaneRuns(AsArray(collectCandidatesMultiLane(vibeForLanes)), AsArray(allJobs(vibeForLanes, vegFriendly)),
           OtherJobs(vibeForLanes, vegFriendly),
           OwnRank(AsArray(allJobs(vibeForLanes, vegFriendly)), OtherJobs(vibeForLanes, vegFriendly)))

RECURSIVE flat(_)
flat(results) == IF results = <<>> THEN <<>> ELSE Head(results).value \o flat(Tail(results))

(* The cache writes of a batch of calls. *)
Wrote(results) == UNION {results[k].wrote : k \in DOMAIN results}

(* The lane searches of a battery. *)
LaneSearches(items, answers, entries, redis, f) ==
  AsArray([k \in DOMAIN items |-> LaneSearch(items[k], answers[k], entries, redis, f)])

(* results.flat() deduplicated by placeId; a lane that rejects rejects the whole. *)
Collected(results, entries) ==
  [threw |-> \E k \in DOMAIN results : results[k].threw,
   value |-> AsArray(DedupeBy(AsArray(flat(results)))),
   entries |-> Stored(entries, Wrote(results))]

(* collectCandidatesMultiLane with its calls. *)
CollectLaneResults(vibeForLanes, vegFriendly, entries, redis, f) ==
  Collected(LaneSearches(AsArray(allJobs(vibeForLanes, vegFriendly)), LaneAnswers(vibeForLanes, vegFriendly),
                         entries, redis, f),
            entries)

NoDetails ==
  [placeId |-> NULL, rating |-> NULL, userRatingsTotal |-> NULL, types |-> {}, openNow |-> "unknown",
   businessStatus |-> "none", closingTime |-> NoLabel, closeTs |-> NULL, pos |-> NULL]

(* fetchPlaceDetailsById with its calls: cache read, provider request, cache
   write; null (NoDetails) when the provider gives nothing usable. *)
DetailsCall(placeId, tzOffsetSec, nowMs, entries, redis, f) ==
  LET key == [placeId |-> placeId, tz |-> tzOffsetSec]
      read == IF redis THEN redisGet(key, entries, f) ELSE [threw |-> FALSE, text |-> NoText]
      net == FetchOutcome("details", f)
      payload == fetchPlaceDetailsById(placeId, tzOffsetSec, nowMs)
      write == IF redis THEN redisSetPx(key, [json |-> "object", value |-> payload], f)
               ELSE [threw |-> FALSE, wrote |-> {}]
  IN IF read.threw THEN [threw |-> TRUE, value |-> NoDetails, wrote |-> {}]
     ELSE IF read.text.json = "object" THEN [threw |-> FALSE, value |-> read.text.value, wrote |-> {}]
     ELSE IF net = "throws" THEN [threw |-> TRUE, value |-> NoDetails, wrote |-> {}]
     ELSE IF net # "ok" THEN [threw |-> FALSE, value |-> NoDetails, wrote |-> {}]
     ELSE [threw |-> FALSE, value |-> payload, wrote |-> write.wrote]

(***************************************************************************)
(* Weather                                                                 *)
(***************************************************************************)
Hour(wet, temp, wind) == [wet |-> wet, temp |-> temp, wind |-> wind]

NoWeather == [ok |-> FALSE, tzOffsetSec |-> 0, nextHours |-> <<>>]

RECURSIVE SeqMin(_)
SeqMin(s) == IF Len(s) = 1 THEN s[1] ELSE Min2(s[1], SeqMin(Tail(s)))
RECURSIVE SeqMax(_)
SeqMax(s) == IF Len(s) = 1 THEN s[1] ELSE Max2(s[1], SeqMax(Tail(s)))

getWeatherFlags(weather) ==
  LET next == IF weather.ok THEN Take(weather.nextHours, 2) ELSE <<>>
      temps == [i \in DOMAIN next |-> next[i].temp]
      winds == [i \in DOMAIN next |-> next[i].wind]
      minTemp == IF Len(temps) > 0 THEN SeqMin(temps) ELSE 999
      maxWind == IF Len(winds) > 0 THEN SeqMax(winds) ELSE 0
  IN [precip |-> \E i \in DOMAIN next : next[i].wet,
      cold |-> minTemp <= 2,
      veryCold |-> minTemp <= -5,
      windy |-> maxWind >= 9,
      veryWindy |-> maxWind >= 13,
      minTemp |-> minTemp]

(***************************************************************************)
(* Options                                                                 *)
(***************************************************************************)
(* openStatus texts and the lower-case fragments they contain. *)
StatusOpenCloses == "Open now, Closes at"
StatusOpen == "Open now"
StatusUnknown == "Hours unknown, Check on Maps"
(* A status text no code of the handler writes: an Option handed to
   hardReject from elsewhere. *)
StatusClosed == "Closed"

StatusIncludes(status, needle) ==
  CASE needle = "open now"      -> status \in {StatusOpenCloses, StatusOpen}
    [] needle = "hours unknown" -> status = StatusUnknown
    [] needle = "closed"        -> status = StatusClosed

(* Mutant of buildSkips: a venue the provider reports as not open now is kept. *)
buildSkipsKeepsNotOpen(d, vibe, allowedSet) ==
  \/ d.placeId = NULL
  \/ d.businessStatus = "CLOSED_PERMANENTLY"
  \/ googleTypeToInternalCategory(d.types, vibe) \notin allowedSet

(* The `continue` conditions of the loop of buildOptionsFromCandidates. *)
buildSkips(d, vibe, allowedSet) ==
  \/ d.placeId = NULL
  \/ d.businessStatus = "CLOSED_PERMANENTLY"
  \/ d.openNow = "false"
  \/ googleTypeToInternalCategory(d.types, vibe) \notin allowedSet

(* The Option the loop pushes for a details record it keeps. *)
buildOption(d, vibe, center) ==
  [placeId |-> d.placeId,
   category |-> googleTypeToInternalCategory(d.types, vibe),
   rating |-> clamp(IF d.rating # NULL THEN d.rating ELSE 44, 41, 50),
   openStatus |-> IF d.openNow = "true"
                  THEN (IF d.closingTime # NoLabel THEN StatusOpenCloses ELSE StatusOpen)
                  ELSE StatusUnknown,
   pos |-> IF d.pos # NULL THEN d.pos ELSE center,
   closingTime |-> d.closingTime,
   closeTs |-> d.closeTs,
   userRatingsTotal |-> d.userRatingsTotal,
   score |-> 0]

(* The loop of buildOptionsFromCandidates over the fetched details. *)
buildLoop(detailsList, vibe, allowedSet, center) ==
  LET kept == SelectSeq(detailsList, LAMBDA d : ~buildSkips(d, vibe, allowedSet))
  IN AsArray([k \in DOMAIN kept |-> buildOption(kept[k], vibe, center)])

(* buildOptionsFromCandidates: nearest first, at most DETAILS_CAP_TOTAL details. *)
DetailsCalls(slice, tzOffsetSec, nowMs, entries, redis, f) ==
  AsArray([k \in DOMAIN slice |-> DetailsCall(slice[k].placeId, tzOffsetSec, nowMs, entries, redis, f)])

DetailsList(calls) == AsArray([k \in DOMAIN calls |-> calls[k].value])

(* Mutant of DetailsSlice: every candidate is handed to the details pool. *)
DetailsSliceNoCap(candidates, center) ==
  SortBy(AsArray(candidates), Comparisons(DistanceKeys(AsArray(candidates), center)))

(* Mutant of DetailsSlice: the slice is cut from the list as handed over. *)
DetailsSliceUnsorted(candidates, center) == Take(AsArray(candidates), DETAILS_CAP_TOTAL)

(* sorted.slice(0, DETAILS_CAP_TOTAL) of the candidates sorted by distance. *)
DetailsSlice(candidates, center) ==
  Take(SortBy(AsArray(candidates), Comparisons(DistanceKeys(AsArray(candidates), center))),
       DETAILS_CAP_TOTAL)

(* The placeIds the details pool was run on: mapLimit calls fn once per item
   of the slice, a worker taking the next item when its call has returned;
   when calls throw, the items the workers took at once. *)
DetailsCalled(slice, threw) ==
  AsArray([k \in 1..(IF threw THEN Min2(DETAILS_CONCURRENCY, Len(slice)) ELSE Len(slice)) |->
             slice[k].placeId])

(* The options built from the details calls; a call that rejects rejects the whole. *)
BuiltFrom(slice, calls, vibe, allowedSet, center, entries) ==
  [threw |-> \E k \in DOMAIN calls : calls[k].threw,
   value |-> buildLoop(DetailsList(calls), vibe, allowedSet, center),
   entries |-> Stored(entries, Wrote(calls)),
   called |-> DetailsCalled(slice, \E k \in DOMAIN calls : calls[k].threw)]

(* mapLimit(slice, DETAILS_CONCURRENCY, fetchPlaceDetailsById) and the loop. *)
BuiltOn(slice, tzOffsetSec, vibe, allowedSet, center, nowMs, entries, redis, f) ==
  BuiltFrom(slice, DetailsCalls(slice, tzOffsetSec, nowMs, entries, redis, f), vibe, allowedSet, center,
            entries)

buildOptionsFromCandidates(candidates, tzOffsetSec, vibe, allowedSet, center, nowMs, entries, redis, f) ==
  BuiltOn(AsArray(DetailsSlice(candidates, center)), tzOffsetSec, vibe, allowedSet, center, nowMs,
          entries, redis, f)

(***************************************************************************)
(* Scoring                                                                 *)
(***************************************************************************)
vibeStrengthBoost(vibe, c) ==
  CASE vibe = "Productive" ->
         (IF Includes(c, <<"library">>) THEN 18
          ELSE IF Includes(c, <<"quiet", "workspace">>) THEN 14
          ELSE IF Includes(c, <<"work", "cafe">>) THEN 12
          ELSE IF Includes(c, <<"study">>) THEN 10 ELSE 6)
    [] vibe = "Social" ->
         (IF Includes(c, <<"bar">>) THEN 16
          ELSE IF Includes(c, <<"activity", "venue">>) THEN 16
          ELSE IF Includes(c, <<"group", "dining">>) THEN 12
          ELSE IF Includes(c, <<"event", "space">>) THEN 10 ELSE 6)
    [] vibe = "Cozy" ->
         (IF Includes(c, <<"tea">>) THEN 14
          ELSE IF Includes(c, <<"dessert">>) THEN 12
          ELSE IF Includes(c, <<"cafe">>) THEN 10
          ELSE IF Includes(c, <<"book">>) THEN 10
          ELSE IF Includes(c, <<"wine">>) THEN 10 ELSE 6)
    [] vibe = "Outdoors" ->
         (IF Includes(c, <<"waterfront">>) THEN 14
          ELSE IF Includes(c, <<"park">>) THEN 12
          ELSE IF Includes(c, <<"scenic">>) THEN 12
          ELSE IF Includes(c, <<"outdoor", "market">>) THEN 10
          ELSE IF Includes(c, <<"activity">>) THEN 10 ELSE 6)
    [] vibe = "Luxury" ->
         (IF Includes(c, <<"fine", "dining">>) THEN 16
          ELSE IF Includes(c, <<"rooftop">>) THEN 14
          ELSE IF Includes(c, <<"premium">>) THEN 12
          ELSE IF Includes(c, <<"specialty", "dessert">>) THEN 10 ELSE 6)
    [] OTHER -> 6

IncludesAny(c, needles) == \E n \in needles : Includes(c, n)

timeOfDayBoost(cityHour, c) ==
  LET morning == cityHour >= 6 /\ cityHour <= 11
      afternoon == cityHour >= 12 /\ cityHour <= 16
      evening == cityHour >= 17 /\ cityHour <= 21
      late == cityHour >= 22 \/ cityHour <= 2
      add(cond, n) == IF cond THEN n ELSE 0
  IN
  IF morning THEN
       add(IncludesAny(c, {<<"cafe">>, <<"tea">>, <<"dessert">>}), 10)
       + add(IncludesAny(c, {<<"library">>, <<"study">>, <<"quiet", "workspace">>}), 8)
  ELSE IF afternoon THEN
       add(IncludesAny(c, {<<"cafe">>, <<"dessert">>}), 6)
       + add(Includes(c, <<"activity">>), 6)
       + add(IncludesAny(c, {<<"park">>, <<"scenic">>, <<"waterfront">>, <<"outdoor">>}), 4)
  ELSE IF evening THEN
       add(IncludesAny(c, {<<"bar">>, <<"group", "dining">>, <<"fine", "dining">>, <<"rooftop">>}), 10)
       + add(IncludesAny(c, {<<"event", "space">>, <<"activity", "venue">>}), 6)
  ELSE IF late THEN
       add(IncludesAny(c, {<<"bar">>, <<"rooftop">>, <<"group", "dining">>}), 8)
       - add(IncludesAny(c, {<<"cafe">>, <<"library">>, <<"book">>}), 6)
       - add(IncludesAny(c, {<<"park">>, <<"scenic">>, <<"waterfront">>}), 10)
  ELSE 0

weatherSoftBoost(flags, c) ==
  LET outdoorish == isOutdoorishCategory(c)
      bad == flags.precip \/ flags.veryCold \/ flags.veryWindy
  IN IF ~bad THEN (IF outdoorish THEN 4 ELSE 0)
     ELSE (IF outdoorish THEN -6 ELSE 6)

(* Math.log10 on the rating counts the provider reports (10^k - 1). *)
RECURSIVE Log10(_)
Log10(n) == IF n < 10 THEN 0 ELSE 1 + Log10(n \div 10)

(* The k-th jitter draw (Math.random() - 0.5) * 2.6 of random sequence seed, *)
(* in whole points.                                                         *)
Jitter(seed, k) == ((seed * (k + 1)) % 3) - 1

(* scoreOption; jitter is the value of its Math.random() term. *)
scoreOption(opt, flags, cityHour, vibe, vegFriendly, seenSet, swappedSet, jitter) ==
  LET c == opt.category
      foodish == IncludesAny(c, {<<"dining">>, <<"fine", "dining">>, <<"cafe">>, <<"dessert">>,
                         <<"rooftop">>, <<"wine">>, <<"bar">>})
  IN opt.rating
     + (IF opt.userRatingsTotal # NULL /\ opt.userRatingsTotal # 0
        THEN Log10(opt.userRatingsTotal + 1) * 6 ELSE 0)
     + vibeStrengthBoost(vibe, c)
     + timeOfDayBoost(cityHour, c)
     + weatherSoftBoost(flags, c)
     + (IF opt.placeId \in swappedSet THEN -80
        ELSE IF opt.placeId \in seenSet THEN -35 ELSE 0)
     + (IF StatusIncludes(opt.openStatus, "hours unknown") THEN -4 ELSE 0)
     + (IF vegFriendly /\ foodish THEN 6 ELSE 0)
     + jitter

(* The weight Math.exp(score / 18) in whole units: it doubles every 12 points
   (e^(12/18) = 1.95). *)
Weight(score) == 2 ^ (Max2(score, 0) \div 12)

(* Math.random() returns n / DrawSteps, n in 0..DrawSteps - 1. *)
DrawSteps == 8

(* weightedPick on the draw Math.random() = n / DrawSteps: r = random * sum,
   then the first index at which r minus the weights so far is <= 0. *)
weightedPickAt(items, n) ==
  LET weights == AsArray([i \in DOMAIN items |-> Weight(items[i].score)])
      upTo == AsArray([i \in DOMAIN items |-> SumSeq(SubSeq(weights, 1, i))])
      sum == SumSeq(weights)
      stops == {i \in DOMAIN items : n * sum <= DrawSteps * upTo[i]}
  IN items[CHOOSE i \in stops : \A j \in stops : i <= j]

(* weightedPick: the weights exp(score / 18) are all positive and their sum *)
(* is finite, so the draw r = Math.random() * sum can stop at any index;    *)
(* the operator is the set of items the call can return.                    *)
weightedPick(items) == Range(items)

(***************************************************************************)
(* Feasibility rules                                                       *)
(***************************************************************************)
Profile(minRemaining, allowUnknownHours, maxDistKm) ==
  [minRemaining |-> minRemaining, allowUnknownHours |-> allowUnknownHours, maxDistKm |-> maxDistKm]

(* Mutants of the profiles: the swap pool taking the retrieval radius (16 km)
   for its distance limit; the swap pool asking for 30 minutes only; the
   shortlist filtered with the swap pool's minimum. *)
RelaxedProfileRadius == Profile(RELAXED_REMAINING_MIN, TRUE, 16)
RelaxedProfileHalfHour == Profile(30, TRUE, MAX_DIST_KM_SWAP)
StrictProfileRelaxedMinutes == Profile(RELAXED_REMAINING_MIN, FALSE, MAX_DIST_KM_SHORTLIST)

(* Mutant of the relaxed profile: the swap pool limited to 8 km. *)
RelaxedProfileNear == Profile(RELAXED_REMAINING_MIN, TRUE, 8)

RelaxedProfile == Profile(RELAXED_REMAINING_MIN, TRUE, MAX_DIST_KM_SWAP)
StrictProfile == Profile(MIN_REMAINING_MIN, FALSE, MAX_DIST_KM_SHORTLIST)

(* Mutant of hardReject: the distance is checked before the status text. *)
hardRejectDistanceFirst(opt, args, allowedSet, center, cityNow, cityHour, flags, nowMs) ==
  LET distKm == haversineKm(center, opt.pos)
      minsLeft == minutesUntilClose(cityNow, opt.closingTime, opt.closeTs, nowMs)
  IN
  IF opt.category \notin allowedSet THEN "vibe_mismatch"
  ELSE IF distKm > args.maxDistKm THEN "too_far"
  ELSE IF StatusIncludes(opt.openStatus, "closed") THEN "closed"
  ELSE IF minsLeft = NULL THEN (IF args.allowUnknownHours THEN "none" ELSE "unknown_hours")
  ELSE IF minsLeft < args.minRemaining THEN "closing_soon"
  ELSE IF isOutdoorishCategory(opt.category)
          /\ (flags.precip \/ flags.veryCold \/ flags.veryWindy) THEN "weather_block"
  ELSE IF isOutdoorishCategory(opt.category) /\ flags.cold /\ cityHour >= 18 THEN "weather_block"
  ELSE "none"

(* hardReject: the rejection reason, "none" for null (accepted). *)
hardReject(opt, args, allowedSet, center, cityNow, cityHour, flags, nowMs) ==
  LET distKm == haversineKm(center, opt.pos)
      minsLeft == minutesUntilClose(cityNow, opt.closingTime, opt.closeTs, nowMs)
  IN
  IF opt.category \notin allowedSet THEN "vibe_mismatch"
  ELSE IF StatusIncludes(opt.openStatus, "closed") THEN "closed"
  ELSE IF distKm > args.maxDistKm THEN "too_far"
  ELSE IF minsLeft = NULL THEN (IF args.allowUnknownHours THEN "none" ELSE "unknown_hours")
  ELSE IF minsLeft < args.minRemaining THEN "closing_soon"
  ELSE IF isOutdoorishCategory(opt.category)
          /\ (flags.precip \/ flags.veryCold \/ flags.veryWindy) THEN "weather_block"
  ELSE IF isOutdoorishCategory(opt.category) /\ flags.cold /\ cityHour >= 18 THEN "weather_block"
  ELSE "none"

Reasons == {"vibe_mismatch", "closed", "too_far", "unknown_hours", "closing_soon", "weather_block"}

(***************************************************************************)
(* Multi-lane retrieval and the swap pool                                  *)
(***************************************************************************)
fallbackVibesForSwap(primary) ==
  CASE primary = "Productive" -> <<"Productive", "Cozy", "Social">>
    [] primary = "Cozy"       -> <<"Cozy", "Productive", "Social">>
    [] primary = "Social"     -> <<"Social", "Cozy", "Luxury">>
    [] primary = "Outdoors"   -> <<"Outdoors", "Social", "Cozy">>
    [] primary = "Luxury"     -> <<"Luxury", "Social", "Cozy">>
    [] OTHER                  -> <<primary, "Cozy", "Social">>

CountCat(s, c) == Cardinality({i \in DOMAIN s : s[i].category = c})

(* diversifyPool(items, maxPerCategory) *)
RECURSIVE diversifyLoop(_, _, _)
diversifyLoop(items, maxPerCategory, out) ==
  IF items = <<>> THEN out
  ELSE IF CountCat(out, Head(items).category) >= maxPerCategory
         THEN diversifyLoop(Tail(items), maxPerCategory, out)
  ELSE diversifyLoop(Tail(items), maxPerCategory, Append(out, Head(items)))

(* Mutant of diversifyPool: the cap test off by one (n > maxPerCategory). *)
diversifyPoolOffByOne(items, maxPerCategory) == diversifyLoop(items, maxPerCategory + 1, <<>>)

diversifyPool(items, maxPerCategory) == diversifyLoop(items, maxPerCategory, <<>>)

(***************************************************************************)
(* Requests and environments the model runs the handler on                 *)
(***************************************************************************)
RawVibes == Vibes \cup {"Chill"}

NotAnArray == [isArray |-> FALSE, items |-> <<>>]
ArrayOf(items) == [isArray |-> TRUE, items |-> items]

(* Freshness lists a caller sends: none; short lists with blank, padded and *)
(* non-string entries; a swapped list of MAX_SWAPPED_IDS entries naming no     *)
(* venue (999) followed by one naming venue 2.                                *)
FreshnessInputs ==
  { [vegFriendly |-> FALSE, seenPlaceIds |-> ArrayOf(<<>>), swappedPlaceIds |-> ArrayOf(<<>>)],
    [vegFriendly |-> TRUE, seenPlaceIds |-> ArrayOf(<<StrEntry(7), StrEntry(5)>>),
     swappedPlaceIds |-> ArrayOf(<<StrEntry(6), OtherEntry, StrEntry(0), PaddedEntry(3)>>)],
    [vegFriendly |-> FALSE, seenPlaceIds |-> NotAnArray,
     swappedPlaceIds |-> ArrayOf([i \in 1..MAX_SWAPPED_IDS |-> StrEntry(999)] \o <<StrEntry(2)>>)] }

Bodies == {[vibe |-> v, fresh |-> f] : v \in RawVibes, f \in FreshnessInputs}

Noon == 12 * MS_PER_HOUR
Later == Noon + 16 * MS_PER_MIN + 30000
EasternOffsetSec == (0 - 5) * 3600
EveningOffsetSec == 6 * 3600

Forecast(tz, hours) == [ok |-> TRUE, tzOffsetSec |-> tz, nextHours |-> hours]
Clear == Forecast(EasternOffsetSec, <<Hour(FALSE, 20, 3), Hour(FALSE, 18, 4), Hour(TRUE, 15, 14)>>)
Rain == Forecast(EasternOffsetSec, <<Hour(FALSE, 12, 5), Hour(TRUE, 11, 6)>>)
ColdEvening == Forecast(EveningOffsetSec, <<Hour(FALSE, 2, 3), Hour(FALSE, 1, 9)>>)
Storm == Forecast(EveningOffsetSec, <<Hour(FALSE, -6, 14)>>)

Envs ==
  { [weather |-> NoWeather, now |-> Later],
    [weather |-> Clear, now |-> Noon],
    [weather |-> Rain, now |-> Later],
    [weather |-> ColdEvening, now |-> Noon],
    [weather |-> Storm, now |-> Later] }

(***************************************************************************)
(* State                                                                   *)
(***************************************************************************)
VARIABLES
  pc,              \* where the POST handler stands
  body,            \* the parsed JSON body of the request
  env,             \* the weather payload and Date.now() of the request
  vibe,            \* normalised vibe
  vegFriendly,
  seenIds,         \* sanitizeIdList(body.seenPlaceIds)
  swappedIds,      \* sanitizeIdList(body.swappedPlaceIds)
  wx,              \* flags, cityHour, tzOffsetSec, cityNow
  laneIdx,         \* index i of the retrieval loop over vibeOrder
  allCandidates,
  built,
  deduped,         \* scored, score-sorted, deduplicated options
  swapFeasible,
  swapPool,
  strictCandidates,
  remaining,
  picked,
  catCount,
  droppedCounts,
  response

planVars == <<pc, body, env, vibe, vegFriendly, seenIds, swappedIds, wx, laneIdx, allCandidates,
              built, deduped, swapFeasible, swapPool, strictCandidates, remaining, picked,
              catCount, droppedCounts, response>>

VARIABLES
  deploy,          \* process.env: provider key, Upstash URL and token, NODE_ENV
  clock,           \* Date.now()
  store,           \* the Redis keys: count and expiry instant of each counter
  req,             \* the POST calls in flight, per handler instance
  reply,           \* the response the step just taken sent, NoReply when it sent none
  failed,          \* a pipeline call has failed (one outage is observed)
  caller,          \* the identity whose requests are observed
  issued,          \* requests sent so far, per identity
  counted,         \* requests counted in the live minute window, per identity
  windowAdmits,    \* of those, the ones enforceRateLimit let through
  admits           \* requests let through, per identity: counted this tick, the tick before

rateVars == <<deploy, clock, store, req, reply, failed, caller, issued, counted, windowAdmits, admits>>

VARIABLES
  fault,           \* what goes wrong outside the server during the request
  cache            \* the Redis keys pp:search:* and pp:details:*: key and stored text

ioVars == <<fault, cache>>

VARIABLES
  jobs,            \* allJobs of collectCandidatesMultiLane: the state of each lane promise
  nextIdx,         \* i of mapLimit
  workers          \* the index each worker of mapLimit awaits, 0 once it has left its loop

laneVars == <<jobs, nextIdx, workers>>

VARIABLES
  out,             \* out of mapLimit: the result slot of each item, NoSlot until written
  detailCalls,     \* the placeIds fetchPlaceDetailsById was called with, in call order
  probe,           \* a function applied on its own: its arguments and what it returned
  client           \* the plan page: its options, pool, bannedKeys, stored swapped history, toast

auxVars == <<out, detailCalls, probe, client>>

vars == <<planVars, rateVars, ioVars, laneVars, auxVars>>

NoResponse ==
  [status |-> 0, options |-> <<>>, pool |-> <<>>, limitedAvailability |-> FALSE, reason |-> "null",
   copy |-> [options |-> <<>>, pool |-> <<>>]]

(* The catch of POST: "Plan generation failed." *)
PlanFailed == [NoResponse EXCEPT !.status = 500]
NoWx == [flags |-> getWeatherFlags(NoWeather), cityHour |-> 0, tzOffsetSec |-> 0, cityNow |-> 0]

NoFault == [site |-> "none", kind |-> "none"]

ColdCache == [search |-> {}, details |-> {}]

InitIoIdle == fault = NoFault /\ cache = ColdCache

InitLanesIdle == jobs = <<>> /\ nextIdx = 0 /\ workers = <<>>

NoSlot == [written |-> FALSE, value |-> <<>>]
NoProbe == [fn |-> "none"]
(* The plan page before a plan has been generated. *)
NoClient == [generated |-> FALSE]

InitAuxIdle == out = <<>> /\ detailCalls = <<>> /\ probe = NoProbe /\ client = NoClient

InitPlanIdle ==
  /\ vibe = "Social" /\ vegFriendly = FALSE /\ seenIds = <<>> /\ swappedIds = <<>>
  /\ wx = NoWx /\ laneIdx = 0 /\ allCandidates = <<>> /\ built = <<>> /\ deduped = <<>>
  /\ swapFeasible = <<>> /\ swapPool = <<>> /\ strictCandidates = <<>> /\ remaining = <<>>
  /\ picked = <<>> /\ catCount = [c \in Categories |-> 0]
  /\ droppedCounts = [r \in Reasons |-> 0] /\ response = NoResponse

(***************************************************************************)
(* Rate limiter state                                                      *)
(***************************************************************************)
MaxTick == 2
MaxRequests == 5
WarmCount == 10

(* The two callers: a guest (getGuestKey) and a signed-in user (u:<id>). *)
Identities == {"guest", "user"}
ModeOf(id) == IF id = "user" THEN "auth" ELSE "guest"

(* Two handler instances run at a time. *)
Procs == {1, 2}

MINUTE_MS == 60000
DAY_MS == 24 * MS_PER_HOUR
TickMs == MINUTE_MS \div 2
StartMs == 12 * MS_PER_HOUR
TickOf(ms) == (ms - StartMs) \div TickMs

(* rl:min:<identity> and rl:day:<identity>:<UTC date>. *)
MinKey(id) == [kind |-> "rl:min", id |-> id, date |-> NULL]
DayKey(id, nowMs) == [kind |-> "rl:day", id |-> id, date |-> nowMs \div DAY_MS]
Keys ==
  {MinKey(id) : id \in Identities}
    \cup {DayKey(id, StartMs + k * TickMs) : id \in Identities, k \in 0..MaxTick}

Absent == [count |-> 0, expiresAt |-> NULL]

IdleReq == [stage |-> "idle", id |-> "none", minCount |-> NULL, dayCount |-> NULL,
            nth |-> 0, countedAt |-> NULL, windowEnd |-> NULL]

Reply(status, retryAfter, error, plan, id, nth) ==
  [status |-> status, retryAfter |-> retryAfter, error |-> error, plan |-> plan, id |-> id, nth |-> nth]
NoReply == Reply(0, NULL, "none", FALSE, "none", 0)

Deployment(googleKey, url, token, production) ==
  [googleKey |-> googleKey, upstashUrl |-> url, upstashToken |-> token, production |-> production]
Deployments ==
  { Deployment(TRUE, TRUE, TRUE, TRUE),
    Deployment(FALSE, TRUE, TRUE, TRUE),
    Deployment(TRUE, TRUE, FALSE, TRUE),
    Deployment(TRUE, FALSE, FALSE, FALSE),
    Deployment(TRUE, TRUE, TRUE, FALSE) }

hasRedis(d) == d.upstashUrl /\ d.upstashToken

(* The signed-in user sent WarmCount requests in the instant before the first
   one observed: they stand in the user's minute and day counters. *)
WarmStore ==
  [k \in Keys |->
     IF k = MinKey("user") THEN [count |-> WarmCount, expiresAt |-> StartMs + MINUTE_MS]
     ELSE IF k = DayKey("user", StartMs) THEN [count |-> WarmCount, expiresAt |-> DAY_MS]
     ELSE Absent]

InitRateOf(d, id) ==
  /\ deploy = d
  /\ caller = id
  /\ clock = StartMs
  /\ store = IF hasRedis(d) THEN WarmStore ELSE [k \in Keys |-> Absent]
  /\ req = [p \in Procs |-> IdleReq]
  /\ reply = NoReply
  /\ failed = FALSE
  /\ issued = [i \in Identities |-> 0]
  /\ counted = [i \in Identities |-> store[MinKey(i)].count]
  /\ windowAdmits = [i \in Identities |-> store[MinKey(i)].count]
  /\ admits = [i \in Identities |-> [prev |-> 0, cur |-> store[MinKey(i)].count]]

Init ==
  /\ pc = "parse"
  /\ body \in Bodies
  /\ env \in Envs
  /\ InitPlanIdle
  /\ InitRateOf(Deployment(TRUE, TRUE, TRUE, TRUE), "guest")
  /\ InitIoIdle
  /\ InitLanesIdle
  /\ InitAuxIdle

(***************************************************************************)
(* POST, from the body parse on                                            *)
(***************************************************************************)
(* Parse + sanitize body. *)
ParseBody ==
  /\ pc = "parse"
  /\ vibe' = pickDefaultVibe(body.vibe)
  /\ vegFriendly' = body.fresh.vegFriendly
  /\ seenIds' = sanitizeIdList(body.fresh.seenPlaceIds, MAX_SEEN_IDS)
  /\ swappedIds' = sanitizeIdList(body.fresh.swappedPlaceIds, MAX_SWAPPED_IDS)
  /\ pc' = "weather"
  /\ UNCHANGED <<rateVars, laneVars, auxVars, fault, cache>>
  /\ UNCHANGED <<body, env, wx, laneIdx, allCandidates, built, deduped, swapFeasible, swapPool,
                 strictCandidates, remaining, picked, catCount, droppedCounts, response>>

(* Weather first (tzOffset drives hour math). *)
WxOf(e) ==
  LET weather == e.weather
      tz == IF weather.ok THEN weather.tzOffsetSec ELSE 0
  IN [flags |-> getWeatherFlags(weather),
      cityHour |-> IF weather.ok THEN UTCHours(cityLocalNow(weather.tzOffsetSec, e.now))
                   ELSE UTCHours(e.now),
      tzOffsetSec |-> tz,
      cityNow |-> cityLocalNow(tz, e.now)]

(* getWeather: null when the forecast answers non-OK or no JSON. *)
getWeather(e, f) ==
  LET net == FetchOutcome("weather", f)
  IN [threw |-> net = "throws",
      value |-> IF net = "ok" THEN e.weather ELSE NoWeather]

GetWeather ==
  /\ pc = "weather"
  /\ LET weather == getWeather(env, fault)
     IN IF weather.threw
          THEN /\ pc' = "done"
               /\ response' = PlanFailed
               /\ UNCHANGED <<wx, laneIdx>>
          ELSE /\ wx' = WxOf([env EXCEPT !.weather = weather.value])
               /\ laneIdx' = 1
               /\ pc' = "lanes"
               /\ UNCHANGED response
  /\ UNCHANGED <<rateVars, laneVars, auxVars, fault, cache>>
  /\ UNCHANGED <<body, env, vibe, vegFriendly, seenIds, swappedIds, allCandidates, built, deduped,
                 swapFeasible, swapPool, strictCandidates, remaining, picked, catCount,
                 droppedCounts>>

(* One iteration of the retrieval loop over fallbackVibesForSwap(vibe). *)
CollectLanes ==
  /\ pc = "lanes"
  /\ LET vibeOrder == fallbackVibesForSwap(vibe)
         candidates == CollectLaneResults(vibeOrder[laneIdx], vegFriendly, cache.search,
                                          hasRedis(deploy), fault)
         merged == allCandidates \o candidates.value
     IN /\ cache' = [cache EXCEPT !.search = candidates.entries]
        /\ IF candidates.threw
             THEN /\ pc' = "done"
                  /\ response' = PlanFailed
                  /\ UNCHANGED <<allCandidates, laneIdx>>
             ELSE /\ allCandidates' = merged
                  /\ UNCHANGED response
                  /\ IF Len(merged) >= CANDIDATE_STOP \/ laneIdx = Len(vibeOrder)
                       THEN pc' = "build" /\ laneIdx' = laneIdx
                       ELSE pc' = "lanes" /\ laneIdx' = laneIdx + 1
  /\ UNCHANGED <<rateVars, laneVars, auxVars, fault>>
  /\ UNCHANGED <<body, env, vibe, vegFriendly, seenIds, swappedIds, wx, built, deduped,
                 swapFeasible, swapPool, strictCandidates, remaining, picked, catCount,
                 droppedCounts>>

(* The dedup across vibes and the not-seen-first sort of POST. *)
NotSeenFirst(uniq, seenSet, center) ==
  SortBy(uniq, Comparisons(NotSeenFirstKeys(uniq, seenSet, center)))

(* The handler once buildOptionsFromCandidates has settled. *)
BuildSettles(sorted, options) ==
  /\ allCandidates' = sorted
  /\ cache' = [cache EXCEPT !.details = options.entries]
  /\ detailCalls' = options.called
  /\ IF options.threw
       THEN /\ pc' = "done"
            /\ response' = PlanFailed
            /\ UNCHANGED built
       ELSE /\ built' = options.value
            /\ pc' = "score"
            /\ UNCHANGED response

(* The swapped filter and the call of buildOptionsFromCandidates. *)
BuildFrom(sorted, hardExclude) ==
  BuildSettles(sorted,
               buildOptionsFromCandidates(SelectSeq(sorted, LAMBDA c : c.placeId \notin hardExclude),
                                          wx.tzOffsetSec, vibe, AllowedSet(vibe), CENTER, env.now,
                                          cache.details, hasRedis(deploy), fault))

(* Dedup across vibes, not-seen-first sort, swapped filter, details, options. *)
BuildOptions ==
  /\ pc = "build"
  /\ BuildFrom(NotSeenFirst(AsArray(DedupeBy(allCandidates)), Range(seenIds), CENTER), Range(swappedIds))
  /\ UNCHANGED <<rateVars, laneVars, out, probe, client, fault>>
  /\ UNCHANGED <<body, env, vibe, vegFriendly, seenIds, swappedIds, wx, laneIdx, deduped,
                 swapFeasible, swapPool, strictCandidates, remaining, picked, catCount,
                 droppedCounts>>

POOL_SMALL == 10

(* The argument record both filter passes hand to hardReject. *)
RejectReason(o, profile) ==
  hardReject(o, profile, AllowedSet(vibe), CENTER, wx.cityNow, wx.cityHour, wx.flags, env.now)

(* The checks of the strictCandidates filter that precede hardReject. *)
StrictPrecheck(o) ==
  /\ StatusIncludes(o.openStatus, "open now")
  /\ \/ o.closeTs # NULL /\ o.closeTs # 0
     \/ o.closingTime # NoLabel

CountReason(s, profile, r) == Cardinality({i \in DOMAIN s : RejectReason(s[i], profile) = r})

(* Score & base sorting, dedup, swap pool, strict candidates (one synchronous *)
(* block of the handler); seed selects the Math.random() jitter sequence.    *)
ScoreAndFilter(seed) ==
  /\ pc = "score"
  /\ LET seenSet == Range(seenIds)
         swappedSet == Range(swappedIds)
         scored == AsArray([k \in DOMAIN built |->
                      [built[k] EXCEPT !.score =
                         scoreOption(built[k], wx.flags, wx.cityHour, vibe, vegFriendly,
                                     seenSet, swappedSet, Jitter(seed, k))]])
         higher == Comparisons(ScoreKeys(scored))
         scoredAll == SortBy(scored, higher)
         dd == DedupeBy(scoredAll)
         feasible == SelectSeq(dd, LAMBDA o : RejectReason(o, RelaxedProfile) = "none")
         swapNotSeen == SelectSeq(feasible, LAMBDA o : o.placeId \notin seenSet)
         chosenPool == IF Len(swapNotSeen) >= (TARGET_SWAP_POOL * 7) \div 10
                       THEN swapNotSeen ELSE feasible
         prechecked == SelectSeq(dd, StrictPrecheck)
         strict == SelectSeq(prechecked, LAMBDA o : RejectReason(o, StrictProfile) = "none")
     IN /\ deduped' = dd
        /\ swapFeasible' = feasible
        /\ swapPool' = Take(diversifyPool(chosenPool, POOL_CAT_CAP), MAX_POOL_RETURN)
        /\ strictCandidates' = strict
        /\ remaining' = Take(strict, TOP_N)
        /\ droppedCounts' = [r \in Reasons |->
                               CountReason(dd, RelaxedProfile, r) + CountReason(prechecked, StrictProfile, r)]
  /\ picked' = <<>>
  /\ catCount' = [c \in Categories |-> 0]
  /\ pc' = "pick"
  /\ UNCHANGED <<rateVars, laneVars, auxVars, fault, cache>>
  /\ UNCHANGED <<body, env, vibe, vegFriendly, seenIds, swappedIds, wx, laneIdx, allCandidates,
                 built, response>>

(* candidatesNow, or remaining when every category left is at its cap. *)
poolForPick(rem, counts) ==
  LET candidatesNow == SelectSeq(rem, LAMBDA o : counts[o.category] < SHORTLIST_CAT_CAP)
  IN IF Len(candidatesNow) > 0 THEN candidatesNow ELSE rem

(* Mutant of removeChosen: the chosen venue stays in remaining. *)
removeChosenKeeps(rem, chosen) == rem

(* remaining.filter(o => key(o) !== chosenKey), the key being the placeId. *)
removeChosen(rem, chosen) == SelectSeq(rem, LAMBDA o : o.placeId # chosen.placeId)

(* One iteration of the selection loop, weightedPick having returned chosen. *)
PickChosen(chosen) ==
  /\ pc = "pick"
  /\ Len(picked) < SHORTLIST_SIZE
  /\ Len(remaining) > 0
  /\ picked' = Append(picked, chosen)
  /\ catCount' = [catCount EXCEPT ![chosen.category] = @ + 1]
  /\ remaining' = removeChosen(remaining, chosen)
  /\ UNCHANGED <<rateVars, laneVars, auxVars, fault, cache>>
  /\ UNCHANGED <<pc, body, env, vibe, vegFriendly, seenIds, swappedIds, wx, laneIdx, allCandidates,
                 built, deduped, swapFeasible, swapPool, strictCandidates, droppedCounts, response>>

(* One iteration of the selection loop. *)
Pick == \E chosen \in weightedPick(poolForPick(remaining, catCount)) : PickChosen(chosen)

(* "Ensure not all same category if we can help it". *)
PostCheck(p, top30) ==
  LET uniqueCats == {p[i].category : i \in DOMAIN p}
      others == {i \in DOMAIN top30 : top30[i].category # p[1].category}
  IN IF Len(p) = SHORTLIST_SIZE /\ Cardinality(uniqueCats) = 1 /\ others # {}
       THEN [p EXCEPT ![Len(p)] = top30[CHOOSE i \in others : \A j \in others : i <= j]]
       ELSE p

(* Mutant of LimitedReason: no text when no cause was tallied. *)
LimitedReasonNoDefault(allowedCategories, dropped) ==
  LET weatherDrops == IF \E i \in DOMAIN allowedCategories : isOutdoorishCategory(allowedCategories[i])
                      THEN dropped["weather_block"] ELSE 0
      closeDrops == dropped["closing_soon"]
      unknownDrops == dropped["unknown_hours"]
  IN IF weatherDrops > 0 /\ weatherDrops >= Max2(closeDrops, unknownDrops) THEN "weather"
     ELSE IF closeDrops > 0 /\ closeDrops >= Max2(weatherDrops, unknownDrops) THEN "closing_soon"
     ELSE IF unknownDrops > 0 THEN "unknown_hours"
     ELSE "null"

(* Limited availability reason. *)
LimitedReason(allowedCategories, dropped) ==
  LET weatherDrops == IF \E i \in DOMAIN allowedCategories : isOutdoorishCategory(allowedCategories[i])
                      THEN dropped["weather_block"] ELSE 0
      closeDrops == dropped["closing_soon"]
      unknownDrops == dropped["unknown_hours"]
  IN IF weatherDrops > 0 /\ weatherDrops >= Max2(closeDrops, unknownDrops) THEN "weather"
     ELSE IF closeDrops > 0 /\ closeDrops >= Max2(weatherDrops, unknownDrops) THEN "closing_soon"
     ELSE IF unknownDrops > 0 THEN "unknown_hours"
     ELSE "limited_matches"

(***************************************************************************)
(* Copy: why and watchouts                                                 *)
(***************************************************************************)
COPY_TARGETS == 28

(* `Fits a ${vibe} vibe with ${withWho.toLowerCase()}.`, withWho "Solo". *)
FallbackWhy(v) == "Fits a " \o v \o " vibe with solo."
FallbackWatchouts == <<"Can be busy at peak hours", "Check live hours on Maps">>
VegWatchout == "Veg options not confirmed - check menu."

(* What the generator writes for a venue; the text for venues with an even
   id speaks of vegetarian food. *)
GeneratedWhy(placeId) == IF placeId % 2 = 0 THEN "A calm vegetarian stop." ELSE "A calm stop."
GeneratedWatchouts == <<"Gets loud late", "Limited seating", "Cash only">>

(* whyText.includes("veget") *)
IncludesVeget(why) == why = "A calm vegetarian stop."

(* The shortlist, then the swap pool, one entry per placeId, at most 28. *)
copyTargets(shortlist, pool) ==
  LET both == shortlist \o pool
      ids == AsArray([i \in DOMAIN both |-> both[i].placeId])
  IN Take(AsArray(ArrayFromSet(ids)), COPY_TARGETS)

(* gptWriteWhyWatchouts: null without a client or without a JSON array in the
   answer; the create call is awaited unguarded. *)
gptWriteWhyWatchouts(venues, f) ==
  LET kind == FetchOutcome("copy", f)
  IN [threw |-> kind = "throws",
      isArray |-> kind \in {"ok", "badRows"},
      rows |-> IF kind = "ok"
                 THEN AsArray([i \in DOMAIN venues |->
                         [placeId |-> venues[i], why |-> GeneratedWhy(venues[i]), whyIsString |-> TRUE,
                          watchouts |-> GeneratedWatchouts]])
               ELSE IF kind = "badRows"
                 THEN AsArray([i \in DOMAIN venues |->
                         [placeId |-> venues[i], why |-> "", whyIsString |-> FALSE,
                          watchouts |-> GeneratedWatchouts]])
               ELSE <<>>]

(* copyById and applyCopy for one option. *)
applyCopy(opt, gptCopy, v, veg) ==
  LET rows == IF gptCopy.isArray THEN gptCopy.rows ELSE <<>>
      set == {i \in DOMAIN rows : rows[i].placeId = opt.placeId /\ rows[i].whyIsString}
      has == set # {}
      copy == rows[CHOOSE i \in set : \A j \in set : j <= i]
      why == IF has /\ copy.why # "" THEN copy.why ELSE FallbackWhy(v)
      watchouts == IF has /\ Len(copy.watchouts) > 0 THEN Take(copy.watchouts, 2) ELSE FallbackWatchouts
      foodish == \/ Includes(opt.category, <<"dining">>)
                 \/ Includes(opt.category, <<"fine", "dining">>)
                 \/ Includes(opt.category, <<"cafe">>)
                 \/ Includes(opt.category, <<"dessert">>)
                 \/ Includes(opt.category, <<"rooftop">>)
                 \/ Includes(opt.category, <<"wine">>)
  IN [why |-> why,
      watchouts |-> IF veg /\ foodish /\ ~IncludesVeget(why) THEN <<watchouts[1], VegWatchout>>
                    ELSE watchouts]

(* picked.forEach(applyCopy), swapPool.forEach(applyCopy) *)
CopyOf(list, gptCopy, v, veg) == AsArray([i \in DOMAIN list |-> applyCopy(list[i], gptCopy, v, veg)])

(* The selection loop has ended: post-check, copy, reason, response. *)
Respond ==
  /\ pc = "pick"
  /\ ~(Len(picked) < SHORTLIST_SIZE /\ Len(remaining) > 0)
  /\ LET final == PostCheck(picked, Take(strictCandidates, TOP_N))
         gptCopy == gptWriteWhyWatchouts(copyTargets(final, swapPool), fault)
         limitedAvailability == Len(final) < SHORTLIST_SIZE
         reason == IF limitedAvailability THEN LimitedReason(ALLOWED_BY_VIBE[vibe], droppedCounts)
                   ELSE "null"
         poolIsSmall == Len(swapPool) < POOL_SMALL
     IN /\ picked' = final
        /\ response' =
             IF gptCopy.threw THEN PlanFailed
             ELSE [status |-> 200,
                   options |-> final,
                   pool |-> swapPool,
                   limitedAvailability |-> limitedAvailability \/ poolIsSmall,
                   reason |-> IF poolIsSmall /\ ~limitedAvailability THEN "swaps_limited" ELSE reason,
                   copy |-> [options |-> CopyOf(final, gptCopy, vibe, vegFriendly),
                             pool |-> CopyOf(swapPool, gptCopy, vibe, vegFriendly)]]
  /\ pc' = "done"
  /\ UNCHANGED <<rateVars, laneVars, auxVars, fault, cache>>
  /\ UNCHANGED <<body, env, vibe, vegFriendly, seenIds, swappedIds, wx, laneIdx, allCandidates,
                 built, deduped, swapFeasible, swapPool, strictCandidates, remaining, catCount,
                 droppedCounts>>

Next ==
  \/ ParseBody
  \/ GetWeather
  \/ CollectLanes
  \/ BuildOptions
  \/ \E seed \in 0..MaxSeed : ScoreAndFilter(seed)
  \/ Pick
  \/ Respond

Spec == Init /\ [][Next]_vars

(***************************************************************************)
(* POST from the body parse on, where one kind of call goes wrong, with    *)
(* and without Redis, on a cold and on a warm cache.                        *)
(***************************************************************************)
Fault(site, kind) == [site |-> site, kind |-> kind]

Faults ==
  {NoFault, Fault("redisGet", "throws"), Fault("redisSet", "throws")}
    \cup {Fault(site, kind) : site \in {"weather", "nearby", "text", "details"},
                              kind \in {"throws", "nonOk", "badJson"}}
    \cup {Fault(site, "noResult") : site \in {"nearby", "text", "details"}}
    \cup {Fault("copy", kind) : kind \in {"absent", "throws", "unusable", "badRows"}}

(* Requests in flight a moment ago left their lane results and the details
   of the venues with an even id in Redis; the first lane of each battery
   and venue 3 hold a text that is no JSON. *)
WarmSearch(v, veg) ==
  LET order == fallbackVibesForSwap(v)
      entries(u) ==
        LET items == AsArray(allJobs(u, veg))
            answers == AsArray(LaneAnswers(u, veg))
        IN {[key |-> [lane |-> items[k].lane, q |-> items[k].q],
             text |-> IF k = 1 THEN [json |-> "garbage", value |-> <<>>]
                      ELSE [json |-> "array", value |-> answers[k]]] : k \in DOMAIN items}
  IN UNION {entries(order[i]) : i \in DOMAIN order}

WarmDetails(e) ==
  LET tz == WxOf(e).tzOffsetSec
  IN {[key |-> [placeId |-> i, tz |-> tz],
       text |-> IF i = 3 THEN [json |-> "garbage", value |-> NoDetails]
                ELSE [json |-> "object", value |-> fetchPlaceDetailsById(i, tz, e.now)]]
        : i \in {j \in PlaceIds : j % 2 = 0 \/ j = 3}}

WarmCache(v, veg, e) == [search |-> WarmSearch(v, veg), details |-> WarmDetails(e)]

IoBodies ==
  {b \in Bodies : \/ b.vibe = "Cozy" /\ b.fresh.vegFriendly
                  \/ b.vibe = "Social" /\ b.fresh.seenPlaceIds = ArrayOf(<<>>)}

InitIO ==
  /\ pc = "parse"
  /\ body \in IoBodies
  /\ env = [weather |-> Clear, now |-> Noon]
  /\ InitPlanIdle
  /\ \E d \in {Deployment(TRUE, TRUE, TRUE, TRUE), Deployment(TRUE, FALSE, FALSE, FALSE)} :
       /\ InitRateOf(d, "guest")
       /\ cache \in {ColdCache} \cup (IF hasRedis(d)
                                      THEN {WarmCache(pickDefaultVibe(body.vibe), body.fresh.vegFriendly, env)}
                                      ELSE {})
  /\ fault \in Faults
  /\ InitLanesIdle
  /\ InitAuxIdle

SpecIO == InitIO /\ [][Next]_vars

(***************************************************************************)
(* POST from the dedup across vibes on, where the provider knows few       *)
(* venues: the retrieval loop has run all three lane batteries and         *)
(* returned the venues of SparseArea the provider has.                     *)
(***************************************************************************)
SparseArea == <<1, 7, 9, 12, 13, 3>>
SparseEnvs == {[weather |-> Clear, now |-> Noon], [weather |-> Rain, now |-> Later]}
SparseVibes == {"Cozy", "Outdoors", "Productive"}

InitSparse ==
  /\ \E known \in SUBSET Range(SparseArea) :
       allCandidates = [k \in DOMAIN FilterSeq(SparseArea, known) |->
                          [placeId |-> FilterSeq(SparseArea, known)[k],
                           pos |-> Place(FilterSeq(SparseArea, known)[k]).pos]]
  /\ pc = "build"
  /\ body \in {b \in Bodies : b.vibe \in SparseVibes /\ b.fresh.seenPlaceIds = ArrayOf(<<>>)}
  /\ env \in SparseEnvs
  /\ vibe = pickDefaultVibe(body.vibe)
  /\ vegFriendly = body.fresh.vegFriendly
  /\ seenIds = sanitizeIdList(body.fresh.seenPlaceIds, MAX_SEEN_IDS)
  /\ swappedIds = sanitizeIdList(body.fresh.swappedPlaceIds, MAX_SWAPPED_IDS)
  /\ wx = WxOf(env)
  /\ laneIdx = Len(fallbackVibesForSwap(vibe))
  /\ built = <<>> /\ deduped = <<>>
  /\ swapFeasible = <<>> /\ swapPool = <<>> /\ strictCandidates = <<>> /\ remaining = <<>>
  /\ picked = <<>> /\ catCount = [c \in Categories |-> 0]
  /\ droppedCounts = [r \in Reasons |-> 0] /\ response = NoResponse
  /\ InitRateOf(Deployment(TRUE, TRUE, TRUE, TRUE), "guest")
  /\ InitIoIdle
  /\ InitLanesIdle
  /\ InitAuxIdle

NextSparse ==
  \/ BuildOptions
  \/ \E seed \in 0..MaxSeed : ScoreAndFilter(seed)
  \/ Pick
  \/ Respond

SpecSparse == InitSparse /\ [][NextSparse]_vars

(***************************************************************************)
(* The details stage where the provider knows many venues: the retrieval   *)
(* loop has merged more candidates than DETAILS_CAP_TOTAL, some of them    *)
(* returned by more than one vibe's battery.                               *)
(***************************************************************************)
(* Venues the crowded area has beyond DETAILS_CAP_TOTAL, at most. *)
CrowdExtra == 3

(* The merged list of the batteries: venues 1..n as first met (by ascending
   or descending identifier), then venues 1..3 again from a later battery. *)
CrowdList(n, descending) ==
  [k \in 1..(n + 3) |->
     LET i == IF k > n THEN k - n ELSE IF descending THEN n + 1 - k ELSE k
     IN [placeId |-> i, pos |-> Place(i).pos]]

InitCrowd ==
  /\ \E n \in (DETAILS_CAP_TOTAL - 1)..(DETAILS_CAP_TOTAL + CrowdExtra), descending \in BOOLEAN :
       allCandidates = CrowdList(n, descending)
  /\ pc = "build"
  /\ body \in Bodies
  /\ env \in SparseEnvs
  /\ vibe = pickDefaultVibe(body.vibe)
  /\ vegFriendly = body.fresh.vegFriendly
  /\ seenIds = sanitizeIdList(body.fresh.seenPlaceIds, MAX_SEEN_IDS)
  /\ swappedIds = sanitizeIdList(body.fresh.swappedPlaceIds, MAX_SWAPPED_IDS)
  /\ wx = WxOf(env)
  /\ laneIdx = Len(fallbackVibesForSwap(vibe))
  /\ built = <<>> /\ deduped = <<>>
  /\ swapFeasible = <<>> /\ swapPool = <<>> /\ strictCandidates = <<>> /\ remaining = <<>>
  /\ picked = <<>> /\ catCount = [c \in Categories |-> 0]
  /\ droppedCounts = [r \in Reasons |-> 0] /\ response = NoResponse
  /\ InitRateOf(Deployment(TRUE, TRUE, TRUE, TRUE), "guest")
  /\ InitIoIdle
  /\ InitLanesIdle
  /\ InitAuxIdle

NextCrowd == BuildOptions

SpecCrowd == InitCrowd /\ [][NextCrowd]_vars

(***************************************************************************)
(* Scoring and selection run twice on the same built options, flags and    *)
(* time, Math.random() returning the same sequence of numbers in both      *)
(* runs.                                                                   *)
(***************************************************************************)
(* The sequence Math.random() follows in a run. *)
SequenceOfFresh(p) == p.seed + p.run - 1

SequenceOf(p) == p.seed

(* The k-th number of random sequence seed the selection loop draws. *)
Draw(seed, k) == ((seed + 1) * (2 * k + 1)) % DrawSteps

ScoreSeeded ==
  /\ probe.fn = "runs"
  /\ ScoreAndFilter(SequenceOf(probe))

PickSeeded ==
  /\ probe.fn = "runs"
  /\ PickChosen(weightedPickAt(poolForPick(remaining, catCount),
                               Draw(SequenceOf(probe), Len(picked) + 1)))

(* The first run has answered: the same stage is run again on its inputs. *)
Rerun ==
  /\ pc = "done"
  /\ probe.fn = "runs"
  /\ probe.run = 1
  /\ probe' = [probe EXCEPT !.run = 2, !.first = response.options]
  /\ pc' = "score"
  /\ response' = NoResponse
  /\ UNCHANGED <<rateVars, ioVars, laneVars, out, detailCalls, client>>
  /\ UNCHANGED <<body, env, vibe, vegFriendly, seenIds, swappedIds, wx, laneIdx, allCandidates, built,
                 deduped, swapFeasible, swapPool, strictCandidates, remaining, picked, catCount,
                 droppedCounts>>

RunVibes == {"Cozy", "Social", "Outdoors"}

InitRuns ==
  /\ allCandidates = [k \in PlaceIds |-> [placeId |-> k, pos |-> Place(k).pos]]
  /\ pc = "build"
  /\ body \in {b \in Bodies : b.vibe \in RunVibes}
  /\ env \in SparseEnvs
  /\ vibe = pickDefaultVibe(body.vibe)
  /\ vegFriendly = body.fresh.vegFriendly
  /\ seenIds = sanitizeIdList(body.fresh.seenPlaceIds, MAX_SEEN_IDS)
  /\ swappedIds = sanitizeIdList(body.fresh.swappedPlaceIds, MAX_SWAPPED_IDS)
  /\ wx = WxOf(env)
  /\ laneIdx = Len(fallbackVibesForSwap(vibe))
  /\ built = <<>> /\ deduped = <<>>
  /\ swapFeasible = <<>> /\ swapPool = <<>> /\ strictCandidates = <<>> /\ remaining = <<>>
  /\ picked = <<>> /\ catCount = [c \in Categories |-> 0]
  /\ droppedCounts = [r \in Reasons |-> 0] /\ response = NoResponse
  /\ InitRateOf(Deployment(TRUE, TRUE, TRUE, TRUE), "guest")
  /\ InitIoIdle
  /\ InitLanesIdle
  /\ out = <<>> /\ detailCalls = <<>> /\ client = NoClient
  /\ \E seed \in 0..MaxSeed : probe = [fn |-> "runs", seed |-> seed, run |-> 1, first |-> <<>>]

NextRuns ==
  \/ BuildOptions
  \/ ScoreSeeded
  \/ PickSeeded
  \/ Respond
  \/ Rerun

SpecRuns == InitRuns /\ [][NextRuns]_vars

(***************************************************************************)
(* Selection where one category crowds the ranking: a street of well-rated *)
(* cafes and a few modest bookshops, all open for hours and close by.      *)
(***************************************************************************)
(* Cafes the street has beyond TOP_N, at most. *)
SelectExtra == 1

(* The details of the street's venues (identifiers 101, 102, ...): n cafes,
   then m bookshops. *)
StreetDetails(n, m, tzOffsetSec, nowMs) ==
  [i \in 1..(n + m) |->
     LET active == closingOf("true", PeriodsOf(At(15, 0), tzOffsetSec), tzOffsetSec, nowMs)
     IN [placeId |-> 100 + i,
         rating |-> IF i <= n THEN 48 ELSE 41,
         userRatingsTotal |-> IF i <= n THEN 999 ELSE 9,
         types |-> IF i <= n THEN {"cafe"} ELSE {"book_store"},
         openNow |-> "true", businessStatus |-> "OPERATIONAL",
         closingTime |-> active.closingTimeLabel, closeTs |-> active.closeTs,
         pos |-> 1 + (i % 5)]]

InitSelect ==
  /\ pc = "score"
  /\ body \in {b \in Bodies : b.vibe = "Cozy"}
  /\ env = [weather |-> Clear, now |-> Noon]
  /\ vibe = pickDefaultVibe(body.vibe)
  /\ vegFriendly = body.fresh.vegFriendly
  /\ seenIds = sanitizeIdList(body.fresh.seenPlaceIds, MAX_SEEN_IDS)
  /\ swappedIds = sanitizeIdList(body.fresh.swappedPlaceIds, MAX_SWAPPED_IDS)
  /\ wx = WxOf(env)
  /\ laneIdx = Len(fallbackVibesForSwap(vibe))
  /\ \E n \in (TOP_N - 1)..(TOP_N + SelectExtra), m \in 0..2 :
       /\ built = buildLoop(AsArray(StreetDetails(n, m, wx.tzOffsetSec, env.now)), vibe,
                            AllowedSet(vibe), CENTER)
       /\ allCandidates = [i \in 1..(n + m) |-> [placeId |-> 100 + i, pos |-> 1 + (i % 5)]]
       /\ detailCalls = [i \in 1..(n + m) |-> 100 + i]
  /\ deduped = <<>>
  /\ swapFeasible = <<>> /\ swapPool = <<>> /\ strictCandidates = <<>> /\ remaining = <<>>
  /\ picked = <<>> /\ catCount = [c \in Categories |-> 0]
  /\ droppedCounts = [r \in Reasons |-> 0] /\ response = NoResponse
  /\ InitRateOf(Deployment(TRUE, TRUE, TRUE, TRUE), "guest")
  /\ InitIoIdle
  /\ InitLanesIdle
  /\ out = <<>> /\ client = NoClient
  /\ \E seed \in 0..MaxSeed : probe = [fn |-> "runs", seed |-> seed, run |-> 1, first |-> <<>>]

NextSelect ==
  \/ ScoreSeeded
  \/ PickSeeded
  \/ Respond

SpecSelect == InitSelect /\ [][NextSelect]_vars

(***************************************************************************)
(* The plan page: fetchPlan stores the options and the pool of a response  *)
(* and empties bannedKeys; swapOption replaces one option from the pool.   *)
(* A click is handled to its end before the next one.                      *)
(***************************************************************************)
(* recentSwapped entries the page keeps per city. *)
MAX_SWAPPED == 60

(* optKey: the trimmed placeId, which every Option of a response has. *)
optKey(o) == o.placeId

isClosed(status) == StatusIncludes(status, "closed")

(* What swapOption reads of an Option, under the id of its slot. *)
ClientOption(o, id) ==
  [id |-> id, placeId |-> o.placeId, category |-> o.category, openStatus |-> o.openStatus]

(* catCount.get(c) ?? 0: the options of category c, the removed one left out. *)
swapCatCount(prev, removedKey, c) ==
  Cardinality({i \in DOMAIN prev : optKey(prev[i]) # removedKey /\ prev[i].category = c})

(* Mutant of baseOk: a venue that was swapped in before is offered again. *)
baseOkIgnoresBan(cand, prev, removedKey, bannedNow) ==
  /\ optKey(cand) # removedKey
  /\ optKey(cand) \notin {optKey(prev[i]) : i \in DOMAIN prev}
  /\ ~isClosed(cand.openStatus)

(* Mutant of baseOk: a venue that stands in another slot is offered. *)
baseOkAllowsDuplicate(cand, prev, removedKey, bannedNow) ==
  /\ optKey(cand) # removedKey
  /\ optKey(cand) \notin bannedNow
  /\ ~isClosed(cand.openStatus)

(* baseOk: not the removed place, not in the shortlist, not banned, not closed. *)
baseOk(cand, prev, removedKey, bannedNow) ==
  /\ optKey(cand) # removedKey
  /\ optKey(cand) \notin {optKey(prev[i]) : i \in DOMAIN prev}
  /\ optKey(cand) \notin bannedNow
  /\ ~isClosed(cand.openStatus)

(* pool.find under a category cap: the index of the first pool item that is
   baseOk and whose category stands fewer than cap times in the rest of the
   shortlist; 0 for undefined. *)
poolFind(pool, prev, removedKey, bannedNow, cap) ==
  LET hits == {i \in DOMAIN pool :
                 /\ baseOk(pool[i], prev, removedKey, bannedNow)
                 /\ swapCatCount(prev, removedKey, pool[i].category) < cap}
  IN IF hits = {} THEN 0 ELSE CHOOSE i \in hits : \A j \in hits : i <= j

(* PASS 1 (at most 2 per category), PASS 2 (at most 3), PASS 3 (no cap: the
   shortlist has no more than SHORTLIST_SIZE options). *)
SwapCaps == <<2, 3, SHORTLIST_SIZE + 1>>

(* Mutant of swapNext: the pass without a cap is tried first. *)
swapNextUncapped(pool, prev, removedKey, bannedNow) ==
  [tier |-> 3, at |-> poolFind(pool, prev, removedKey, bannedNow, SwapCaps[3])]

(* next = pass1 ?? pass2 ?? pass3: the pass that found it and its index in
   the pool, 0 when all three found nothing. *)
swapNext(pool, prev, removedKey, bannedNow) ==
  LET found == {t \in DOMAIN SwapCaps : poolFind(pool, prev, removedKey, bannedNow, SwapCaps[t]) # 0}
      first == CHOOSE t \in found : \A u \in found : t <= u
  IN IF found = {} THEN [tier |-> 0, at |-> 0]
     ELSE [tier |-> first, at |-> poolFind(pool, prev, removedKey, bannedNow, SwapCaps[first])]

(* markSwapped within the 48 hours an entry lives: the key goes to the front
   unless it is there already, the list is cut to MAX_SWAPPED. *)
markSwapped(recentSwapped, key) ==
  IF key \in Range(recentSwapped) THEN Take(recentSwapped, MAX_SWAPPED)
  ELSE Take(<<key>> \o recentSwapped, MAX_SWAPPED)

ToastNone == "none"
ToastNotFound == "Swap failed"
ToastNoMore == "No more swap options right now"
ToastSwapped == "Swapped"

(* fetchPlan on a 200 response: options (ids 1..5 as the handler numbered
   them), pool, an empty ban set.  removed and swaps record what the swaps on
   this result did, last the latest call: the shortlist and ban set it
   started from, the key it removed, the key it put in and the pass that
   found it. *)
FetchPlan ==
  /\ pc = "done"
  /\ response.status = 200
  /\ ~client.generated
  /\ client' = [generated |-> TRUE,
                options |-> [i \in DOMAIN response.options |-> ClientOption(response.options[i], i)],
                pool |-> [i \in DOMAIN response.pool |-> ClientOption(response.pool[i], 0)],
                bannedKeys |-> {},
                recentSwapped |-> <<>>,
                toast |-> ToastNone,
                removed |-> {}, swaps |-> 0,
                last |-> [tier |-> 0, removedKey |-> NULL, nextKey |-> NULL, before |-> <<>>,
                          banned |-> {}]]
  /\ UNCHANGED <<planVars, rateVars, ioVars, laneVars, out, detailCalls, probe>>

(* The updater of swapOption on the shortlist prev. *)
swapOption(c, id) ==
  LET prev == c.options
      found == {i \in DOMAIN prev : prev[i].id = id}
      idx == CHOOSE i \in found : \A j \in found : i <= j
      removedKey == optKey(prev[idx])
      next == swapNext(c.pool, prev, removedKey, c.bannedKeys)
      tried == [tier |-> next.tier, removedKey |-> removedKey, nextKey |-> NULL, before |-> prev,
                banned |-> c.bannedKeys]
  IN IF found = {}
       THEN [c EXCEPT !.toast = ToastNotFound,
                      !.last = [tier |-> 0, removedKey |-> NULL, nextKey |-> NULL, before |-> prev,
                                banned |-> c.bannedKeys]]
     ELSE IF next.at = 0 THEN [c EXCEPT !.toast = ToastNoMore, !.last = tried]
     ELSE [c EXCEPT !.options[idx] = ClientOption(c.pool[next.at], prev[idx].id),
                    !.bannedKeys = @ \cup {optKey(c.pool[next.at])},
                    !.recentSwapped = markSwapped(@, removedKey),
                    !.toast = ToastSwapped,
                    !.removed = @ \cup {removedKey},
                    !.swaps = @ + 1,
                    !.last = [tried EXCEPT !.nextKey = optKey(c.pool[next.at])]]

(* Successful swaps followed on one generated result, at most. *)
MaxSwaps == 4

(* A click on the swap button of the option with this id. *)
SwapOption(id) ==
  /\ client.generated
  /\ swapOption(client, id).swaps <= MaxSwaps
  /\ client' = swapOption(client, id)
  /\ UNCHANGED <<planVars, rateVars, ioVars, laneVars, out, detailCalls, probe>>

(* Ids the page can ask to swap: those of the slots and one no option has. *)
SwapIds == 1..(SHORTLIST_SIZE + 1)

SwapVibes == {"Cozy", "Social"}

(* What the retrieval loop merged: every venue the provider knows, or the
   few of a sparse area. *)
SwapAreas ==
  { [k \in PlaceIds |-> [placeId |-> k, pos |-> Place(k).pos]],
    [k \in DOMAIN SparseArea |-> [placeId |-> SparseArea[k], pos |-> Place(SparseArea[k]).pos]] }

InitSwap ==
  /\ allCandidates \in SwapAreas
  /\ pc = "build"
  /\ body \in {b \in Bodies : b.vibe \in SwapVibes /\ b.fresh.seenPlaceIds = ArrayOf(<<>>)}
  /\ env = [weather |-> Clear, now |-> Noon]
  /\ vibe = pickDefaultVibe(body.vibe)
  /\ vegFriendly = body.fresh.vegFriendly
  /\ seenIds = sanitizeIdList(body.fresh.seenPlaceIds, MAX_SEEN_IDS)
  /\ swappedIds = sanitizeIdList(body.fresh.swappedPlaceIds, MAX_SWAPPED_IDS)
  /\ wx = WxOf(env)
  /\ laneIdx = Len(fallbackVibesForSwap(vibe))
  /\ built = <<>> /\ deduped = <<>>
  /\ swapFeasible = <<>> /\ swapPool = <<>> /\ strictCandidates = <<>> /\ remaining = <<>>
  /\ picked = <<>> /\ catCount = [c \in Categories |-> 0]
  /\ droppedCounts = [r \in Reasons |-> 0] /\ response = NoResponse
  /\ InitRateOf(Deployment(TRUE, TRUE, TRUE, TRUE), "guest")
  /\ InitIoIdle
  /\ InitLanesIdle
  /\ out = <<>> /\ detailCalls = <<>> /\ client = NoClient
  /\ \E seed \in 0..MaxSeed : probe = [fn |-> "runs", seed |-> seed, run |-> 1, first |-> <<>>]

NextSwap ==
  \/ BuildOptions
  \/ ScoreSeeded
  \/ PickSeeded
  \/ Respond
  \/ FetchPlan
  \/ \E id \in SwapIds : SwapOption(id)

SpecSwap == InitSwap /\ [][NextSwap]_vars

(***************************************************************************)
(* Functions applied on their own: the handler is idle, probe holds the    *)
(* arguments and then what the function returned.                          *)
(***************************************************************************)
InitProbe ==
  /\ pc = "probe"
  /\ body = [vibe |-> "Social",
             fresh |-> [vegFriendly |-> FALSE, seenPlaceIds |-> ArrayOf(<<>>),
                        swappedPlaceIds |-> ArrayOf(<<>>)]]
  /\ env = [weather |-> NoWeather, now |-> Noon]
  /\ InitPlanIdle
  /\ InitRateOf(Deployment(TRUE, TRUE, TRUE, TRUE), "guest")
  /\ InitIoIdle
  /\ InitLanesIdle
  /\ out = <<>> /\ detailCalls = <<>> /\ client = NoClient

Probed(result) ==
  /\ pc = "probe"
  /\ probe' = [probe EXCEPT !.result = result]
  /\ pc' = "probed"
  /\ UNCHANGED <<rateVars, ioVars, laneVars, out, detailCalls, client>>
  /\ UNCHANGED <<body, env, vibe, vegFriendly, seenIds, swappedIds, wx, laneIdx, allCandidates, built,
                 deduped, swapFeasible, swapPool, strictCandidates, remaining, picked, catCount,
                 droppedCounts, response>>

(* Weekly periods a provider reports: Thursday 9:00 to 17:00, Thursday 18:00
   to 23:00, Saturday 22:00 to Sunday 2:00 (past the end of the week),
   Wednesday 20:00 to Thursday 1:00, Friday 10:00 to Friday 10:00 (a whole
   week), and an always-open entry without a close. *)
SamplePeriods ==
  { Period(PeriodEnd(4, 900), PeriodEnd(4, 1700)),
    Period(PeriodEnd(4, 1800), PeriodEnd(4, 2300)),
    Period(PeriodEnd(6, 2200), PeriodEnd(0, 200)),
    Period(PeriodEnd(3, 2000), PeriodEnd(4, 100)),
    Period(PeriodEnd(5, 1000), PeriodEnd(5, 1000)),
    Period(PeriodEnd(0, 0), NoEnd) }

(* Schedules of at most MaxPeriods periods. *)
MaxPeriods == 2
SampleSchedules == UNION {[1..n -> SamplePeriods] : n \in 0..MaxPeriods}

(* Date.now() when the city clock at offset tz shows the given day and time,
   in the second week of 1970; the clock is half a minute past the minute. *)
InstantAt(day, hh, mm, tz) ==
  (WEEK + ((day + 3) % 7) * DAY_MIN + hh * 60 + mm) * MS_PER_MIN + 30000 - tz * 1000

SampleClocks == { <<4, 10, 0>>, <<4, 17, 30>>, <<4, 0, 30>>, <<6, 23, 0>>, <<0, 1, 0>>, <<4, 16, 59>> }

InitPeriods ==
  /\ InitProbe
  /\ \E openNow \in {"true", "false", "unknown"}, periods \in SampleSchedules,
        tz \in {EasternOffsetSec, EveningOffsetSec}, c \in SampleClocks :
       probe = [fn |-> "closingOf", openNow |-> openNow, periods |-> periods, tzOffsetSec |-> tz,
                nowMs |-> InstantAt(c[1], c[2], c[3], tz), result |-> NoClose]

ApplyClosing ==
  /\ probe.fn = "closingOf"
  /\ Probed(closingOf(probe.openNow, probe.periods, probe.tzOffsetSec, probe.nowMs))

NextPeriods == ApplyClosing

SpecPeriods == InitPeriods /\ [][NextPeriods]_vars

(* Options handed to hardReject: a category the vibe Social allows (indoor,
   outdoor-leaning) or not, near, just within the strict limit, beyond it, beyond both
   limits, each status text, and a closing instant unknown or 30, 60 or 120
   minutes away. *)
SampleOptions(nowMs) ==
  { [placeId |-> 1, category |-> c, rating |-> 45, openStatus |-> st, pos |-> pos,
     closingTime |-> NoLabel, closeTs |-> IF mins = NULL THEN NULL ELSE nowMs + mins * MS_PER_MIN,
     userRatingsTotal |-> 99, score |-> 0]
    : c \in {"Bar", "Activity Venue", "Park"}, st \in {StatusOpenCloses, StatusUnknown, StatusClosed},
      pos \in {3, 9, 12, 20}, mins \in {NULL, 30, 60, 120} }

InitReject ==
  /\ InitProbe
  /\ \E e \in {[weather |-> Clear, now |-> Noon], [weather |-> Rain, now |-> Later],
                [weather |-> ColdEvening, now |-> Noon]},
        args \in {StrictProfile, RelaxedProfile} :
       \E opt \in SampleOptions(e.now) :
         probe = [fn |-> "hardReject", opt |-> opt, args |-> args, vibe |-> "Social", env |-> e,
                  result |-> "none"]

ApplyReject ==
  /\ probe.fn = "hardReject"
  /\ Probed(hardReject(probe.opt, probe.args, AllowedSet(probe.vibe), CENTER, WxOf(probe.env).cityNow,
                       WxOf(probe.env).cityHour, WxOf(probe.env).flags, probe.env.now))

NextReject == ApplyReject

SpecReject == InitReject /\ [][NextReject]_vars

(***************************************************************************)
(* collectCandidatesMultiLane, promise by promise: the lane searches are   *)
(* started by the two map calls, then mapLimit awaits them.                *)
(***************************************************************************)
(* A worker of mapLimit from its next `const idx = i++` to the await that
   suspends it: a promise that is already fulfilled is passed, a rejected one
   throws, past the last item the worker breaks. *)
RECURSIVE workerLoop(_, _)
workerLoop(js, i) ==
  IF i >= Len(js) THEN [awaits |-> 0, i |-> i + 1, threw |-> FALSE]
  ELSE IF js[i + 1].state = "inflight" THEN [awaits |-> i + 1, i |-> i + 1, threw |-> FALSE]
  ELSE IF js[i + 1].state = "rejected" THEN [awaits |-> 0, i |-> i + 1, threw |-> TRUE]
  ELSE workerLoop(js, i + 1)

(* Mutant of mapLimit: one worker per item. *)
mapLimitUnbounded(items, limit) ==
  [workers |-> [w \in 1..Len(items) |-> w], i |-> Len(items)]

(* mapLimit(items, limit, fn) up to the first suspension of every worker. *)
mapLimit(items, limit) ==
  [workers |-> [w \in 1..Min2(limit, Len(items)) |-> w], i |-> Min2(limit, Len(items))]

(* The searches whose request is out and unanswered. *)
InFlight == {k \in DOMAIN jobs : jobs[k].state = "inflight"}

(* nearbyKeywords.map(googleNearbySearch), textQueries.map(googleTextSearch),
   mapLimit(allJobs, LANE_CONCURRENCY, p => await p) up to its first await. *)
StartLanes ==
  /\ pc = "lanes"
  /\ jobs = <<>>
  /\ LET items == allJobs(fallbackVibesForSwap(vibe)[laneIdx], vegFriendly)
         started == mapLimit(items, LANE_CONCURRENCY)
         answers == LaneAnswers(fallbackVibesForSwap(vibe)[laneIdx], vegFriendly)
     IN /\ jobs' = [k \in DOMAIN items |-> [lane |-> items[k].lane, q |-> items[k].q, state |-> "inflight",
                                             value |-> answers[k]]]
        /\ workers' = started.workers
        /\ nextIdx' = started.i
        /\ out' = [k \in DOMAIN items |-> NoSlot]
  /\ pc' = "fanout"
  /\ UNCHANGED <<rateVars, ioVars, detailCalls, probe, client>>
  /\ UNCHANGED <<body, env, vibe, vegFriendly, seenIds, swappedIds, wx, laneIdx, allCandidates, built,
                 deduped, swapFeasible, swapPool, strictCandidates, remaining, picked, catCount,
                 droppedCounts, response>>

(* The search of a lane rejects when the network fails under it. *)
Rejects(job) == fault.site = job.lane /\ fault.kind = "throws"

(* Mutant of the slot write: out.push, each result after those already there. *)
SlotsPushed(slots, js, k, i, stop) ==
  LET have == Cardinality({j \in DOMAIN slots : slots[j].written})
  IN [j \in DOMAIN slots |->
        IF j = have + 1 /\ js[k].state = "fulfilled"
          THEN [written |-> TRUE, value |-> js[k].value]
          ELSE slots[j]]

(* out[idx] = await fn(items[idx], idx): the worker that awaited item k
   writes slot k with the value of promise k when that promise is fulfilled,
   then the slot of every fulfilled item it passes from index i up to the
   item it stops at. *)
SlotsWritten(slots, js, k, i, stop) ==
  [j \in DOMAIN slots |->
     IF js[j].state = "fulfilled" /\ (j = k \/ (j > i /\ j <= stop))
       THEN [written |-> TRUE, value |-> js[j].value]
       ELSE slots[j]]

(* The promise of lane k settles; the worker awaiting it, if any, runs on. *)
LaneSettles(k) ==
  /\ pc = "fanout"
  /\ k \in InFlight
  /\ LET js == [jobs EXCEPT ![k].state = IF Rejects(jobs[k]) THEN "rejected" ELSE "fulfilled"]
         awaiting == {w \in DOMAIN workers : workers[w] = k}
         run == IF js[k].state = "rejected" THEN [awaits |-> 0, i |-> nextIdx, threw |-> TRUE]
                ELSE workerLoop(js, nextIdx)
         ws == [w \in DOMAIN workers |-> IF w \in awaiting THEN run.awaits ELSE workers[w]]
         results == SlotsWritten(out, js, k, nextIdx, run.i)
     IN /\ jobs' = js
        /\ IF awaiting = {}
             THEN UNCHANGED <<workers, nextIdx, pc, allCandidates, response, out>>
             ELSE /\ workers' = ws
                  /\ nextIdx' = run.i
                  /\ out' = results
                  /\ IF run.threw
                       THEN /\ pc' = "done"
                            /\ response' = PlanFailed
                            /\ UNCHANGED allCandidates
                       ELSE IF \A w \in DOMAIN ws : ws[w] = 0
                         THEN /\ pc' = "collected"
                              /\ allCandidates' = allCandidates \o AsArray(DedupeBy(AsArray(flat(results))))
                              /\ UNCHANGED response
                       ELSE UNCHANGED <<pc, allCandidates, response>>
  /\ UNCHANGED <<rateVars, ioVars, detailCalls, probe, client>>
  /\ UNCHANGED <<body, env, vibe, vegFriendly, seenIds, swappedIds, wx, laneIdx, built,
                 deduped, swapFeasible, swapPool, strictCandidates, remaining, picked, catCount,
                 droppedCounts>>

MaxLanes == NEARBY_LANES + TEXT_LANES

(* The vibes with the fewest lanes: 6 + 5 and 5 + 5. *)
LaneVibes == {"Outdoors", "Luxury"}

LaneFaults == {NoFault, [site |-> "nearby", kind |-> "throws"], [site |-> "text", kind |-> "throws"]}

InitLanes ==
  /\ pc = "lanes"
  /\ body \in {b \in Bodies : b.vibe \in LaneVibes /\ b.fresh.seenPlaceIds = ArrayOf(<<>>)}
  /\ env = [weather |-> Clear, now |-> Noon]
  /\ vibe = pickDefaultVibe(body.vibe)
  /\ vegFriendly = body.fresh.vegFriendly
  /\ seenIds = sanitizeIdList(body.fresh.seenPlaceIds, MAX_SEEN_IDS)
  /\ swappedIds = sanitizeIdList(body.fresh.swappedPlaceIds, MAX_SWAPPED_IDS)
  /\ wx = WxOf(env)
  /\ laneIdx = 1
  /\ allCandidates = <<>> /\ built = <<>> /\ deduped = <<>>
  /\ swapFeasible = <<>> /\ swapPool = <<>> /\ strictCandidates = <<>> /\ remaining = <<>>
  /\ picked = <<>> /\ catCount = [c \in Categories |-> 0]
  /\ droppedCounts = [r \in Reasons |-> 0] /\ response = NoResponse
  /\ InitRateOf(Deployment(TRUE, TRUE, TRUE, TRUE), "guest")
  /\ fault \in LaneFaults
  /\ cache = ColdCache
  /\ InitLanesIdle
  /\ InitAuxIdle

(* The rest of the iteration of the retrieval loop once the battery of the
   vibe has been awaited: the break at CANDIDATE_STOP or past the last vibe. *)
LanesAwaited ==
  /\ pc = "collected"
  /\ IF Len(allCandidates) >= CANDIDATE_STOP \/ laneIdx = Len(fallbackVibesForSwap(vibe))
       THEN pc' = "build" /\ laneIdx' = laneIdx
       ELSE pc' = "lanes" /\ laneIdx' = laneIdx + 1
  /\ UNCHANGED <<rateVars, ioVars, laneVars, auxVars>>
  /\ UNCHANGED <<body, env, vibe, vegFriendly, seenIds, swappedIds, wx, allCandidates, built,
                 deduped, swapFeasible, swapPool, strictCandidates, remaining, picked, catCount,
                 droppedCounts, response>>

(* The battery of the primary vibe promise by promise, the batteries of the
   fallback vibes each in one step, then the dedup across vibes. *)
NextLanes ==
  \/ StartLanes
  \/ \E k \in 1..MaxLanes : LaneSettles(k)
  \/ LanesAwaited
  \/ (laneIdx > 1 /\ CollectLanes)
  \/ BuildOptions

SpecLanes == InitLanes /\ [][NextLanes]_vars

(***************************************************************************)
(* buildOptionsFromCandidates, call by call: mapLimit starts a details     *)
(* call when a worker takes the item, and a worker takes its next item     *)
(* when its call has returned.                                             *)
(***************************************************************************)
(* Candidates the details stage is given beyond DETAILS_CONCURRENCY, at most. *)
DetailsExtra == 1
MaxDetails == DETAILS_CONCURRENCY + DetailsExtra

(* A worker of mapLimit at `const idx = i++`: past the last item it breaks,
   else it calls fn on item idx and awaits it. *)
takeNext(items, i) ==
  IF i >= Len(items) THEN [awaits |-> 0, i |-> i + 1] ELSE [awaits |-> i + 1, i |-> i + 1]

(* The details calls that are out and have not returned. *)
DetailsInFlight == {k \in DOMAIN jobs : jobs[k].lane = "details" /\ jobs[k].state = "inflight"}

(* POST from the dedup across vibes to mapLimit(slice, DETAILS_CONCURRENCY, ...)
   with its workers at their first await. *)
StartDetailsOn(slice, started) ==
  /\ jobs' = [k \in DOMAIN slice |->
                [lane |-> "details", q |-> slice[k].placeId,
                 state |-> IF k <= started.i THEN "inflight" ELSE "pending", value |-> NoDetails]]
  /\ workers' = started.workers
  /\ nextIdx' = started.i
  /\ out' = [k \in DOMAIN slice |-> NoSlot]
  /\ detailCalls' = [k \in 1..started.i |-> slice[k].placeId]

StartDetailsFrom(sorted, hardExclude) ==
  /\ allCandidates' = sorted
  /\ StartDetailsOn(AsArray(DetailsSlice(SelectSeq(sorted, LAMBDA c : c.placeId \notin hardExclude), CENTER)),
                    mapLimit(DetailsSlice(SelectSeq(sorted, LAMBDA c : c.placeId \notin hardExclude), CENTER),
                             DETAILS_CONCURRENCY))

StartDetails ==
  /\ pc = "build"
  /\ jobs = <<>>
  /\ StartDetailsFrom(NotSeenFirst(AsArray(DedupeBy(allCandidates)), Range(seenIds), CENTER),
                      Range(swappedIds))
  /\ pc' = "detailsFanout"
  /\ UNCHANGED <<rateVars, ioVars, probe, client>>
  /\ UNCHANGED <<body, env, vibe, vegFriendly, seenIds, swappedIds, wx, laneIdx, built,
                 deduped, swapFeasible, swapPool, strictCandidates, remaining, picked, catCount,
                 droppedCounts, response>>

(* The details call of item k returns to the worker that awaits it: the
   worker writes out[k] and takes the next item, or throws with the call.
   A throw rejects mapLimit, and POST answers 500 from its catch, while the
   other workers run on. *)
DetailReturns(k, call, run) ==
  /\ jobs' = [j \in DOMAIN jobs |->
                IF j = k THEN [jobs[j] EXCEPT !.state = IF call.threw THEN "rejected" ELSE "fulfilled",
                                              !.value = call.value]
                ELSE IF j = run.awaits THEN [jobs[j] EXCEPT !.state = "inflight"]
                ELSE jobs[j]]
  /\ workers' = [w \in DOMAIN workers |-> IF workers[w] = k THEN run.awaits ELSE workers[w]]
  /\ nextIdx' = run.i
  /\ out' = IF call.threw THEN out ELSE [out EXCEPT ![k] = [written |-> TRUE, value |-> call.value]]
  /\ cache' = [cache EXCEPT !.details = Stored(cache.details, call.wrote)]
  /\ detailCalls' = IF run.awaits # 0 THEN Append(detailCalls, jobs[run.awaits].q) ELSE detailCalls
  /\ IF pc = "done" THEN UNCHANGED <<pc, response, built>>
     ELSE IF call.threw
       THEN /\ pc' = "done"
            /\ response' = PlanFailed
            /\ UNCHANGED built
     ELSE IF \A w \in DOMAIN workers : workers'[w] = 0
       THEN /\ pc' = "score"
            /\ built' = buildLoop(DetailsList(out'), vibe, AllowedSet(vibe), CENTER)
            /\ UNCHANGED response
     ELSE UNCHANGED <<pc, response, built>>

DetailSettles(k) ==
  /\ pc \in {"detailsFanout", "done"}
  /\ k \in DetailsInFlight
  /\ DetailReturns(k, DetailsCall(jobs[k].q, wx.tzOffsetSec, env.now, cache.details, hasRedis(deploy), fault),
                   IF DetailsCall(jobs[k].q, wx.tzOffsetSec, env.now, cache.details, hasRedis(deploy),
                                  fault).threw
                     THEN [awaits |-> 0, i |-> nextIdx]
                     ELSE takeNext(jobs, nextIdx))
  /\ UNCHANGED <<rateVars, fault, probe, client>>
  /\ UNCHANGED <<body, env, vibe, vegFriendly, seenIds, swappedIds, wx, laneIdx, allCandidates,
                 deduped, swapFeasible, swapPool, strictCandidates, remaining, picked, catCount,
                 droppedCounts>>

DetailFaults == {NoFault, [site |-> "details", kind |-> "throws"], [site |-> "details", kind |-> "nonOk"]}

InitDetails ==
  /\ \E n \in (DETAILS_CONCURRENCY - 1)..MaxDetails :
       allCandidates = [k \in 1..n |-> [placeId |-> k, pos |-> Place(k).pos]]
  /\ pc = "build"
  /\ body \in {b \in Bodies : b.vibe = "Cozy" /\ b.fresh.vegFriendly}
  /\ env = [weather |-> Clear, now |-> Noon]
  /\ vibe = pickDefaultVibe(body.vibe)
  /\ vegFriendly = body.fresh.vegFriendly
  /\ seenIds = sanitizeIdList(body.fresh.seenPlaceIds, MAX_SEEN_IDS)
  /\ swappedIds = <<>>
  /\ wx = WxOf(env)
  /\ laneIdx = Len(fallbackVibesForSwap(vibe))
  /\ built = <<>> /\ deduped = <<>>
  /\ swapFeasible = <<>> /\ swapPool = <<>> /\ strictCandidates = <<>> /\ remaining = <<>>
  /\ picked = <<>> /\ catCount = [c \in Categories |-> 0]
  /\ droppedCounts = [r \in Reasons |-> 0] /\ response = NoResponse
  /\ InitRateOf(Deployment(TRUE, TRUE, TRUE, TRUE), "guest")
  /\ fault \in DetailFaults
  /\ cache = ColdCache
  /\ InitLanesIdle
  /\ InitAuxIdle

NextDetails ==
  \/ StartDetails
  \/ \E k \in 1..MaxDetails : DetailSettles(k)

SpecDetails == InitDetails /\ [][NextDetails]_vars

(***************************************************************************)
(* POST up to the body parse: credential check, identity, rate limit       *)
(***************************************************************************)
(* The Lua script of redisIncrWithTtl run by Redis at instant nowMs on a key:
   INCR, and PEXPIRE when the INCR made the key.  A key whose expiry has
   come is gone. *)
Live(entry, nowMs) == entry.count > 0 /\ entry.expiresAt > nowMs

(* Mutant of EvalIncr: a read-then-write whose write is lost every second time. *)
EvalIncrLossy(entry, nowMs, ttlMs) ==
  LET c == IF Live(entry, nowMs) THEN (IF entry.count % 2 = 1 THEN entry.count + 1 ELSE entry.count) ELSE 1
  IN [entry |-> [count |-> c, expiresAt |-> IF c = 1 THEN nowMs + ttlMs ELSE entry.expiresAt],
      result |-> [kind |-> "number", value |-> c]]

(* Mutant of EvalIncr: PEXPIRE after every INCR. *)
EvalIncrResetsExpiry(entry, nowMs, ttlMs) ==
  LET c == IF Live(entry, nowMs) THEN entry.count + 1 ELSE 1
  IN [entry |-> [count |-> c, expiresAt |-> nowMs + ttlMs],
      result |-> [kind |-> "number", value |-> c]]

(* Mutant of EvalIncr: PEXPIRE again once the count has passed the guest cap,
   so that requests over the cap push the expiry on. *)
EvalIncrDeniedExtends(entry, nowMs, ttlMs) ==
  LET c == IF Live(entry, nowMs) THEN entry.count + 1 ELSE 1
  IN [entry |-> [count |-> c, expiresAt |-> IF c = 1 \/ c > 3 THEN nowMs + ttlMs ELSE entry.expiresAt],
      result |-> [kind |-> "number", value |-> c]]

EvalIncr(entry, nowMs, ttlMs) ==
  LET c == IF Live(entry, nowMs) THEN entry.count + 1 ELSE 1
  IN [entry |-> [count |-> c, expiresAt |-> IF c = 1 THEN nowMs + ttlMs ELSE entry.expiresAt],
      result |-> [kind |-> "number", value |-> c]]

(* redisIncrWithTtl: the count read from the pipeline's first result. *)
redisIncrWithTtl(r) ==
  IF r.kind = "number" THEN r.value
  ELSE IF r.kind = "digits" THEN r.value
  ELSE 1

msUntilUtcMidnight(nowMs) == Max2(60000, (nowMs \div DAY_MS + 1) * DAY_MS - nowMs)

(* Mutant of perMinMax: the authenticated cap for everyone. *)
perMinMaxAuthOnly(mode) == 12

perMinMax(mode) == IF mode = "guest" THEN 3 ELSE 12
perDayMax(mode) == IF mode = "guest" THEN 15 ELSE 200

(* Mutant of enforceRateLimit: the minute test off by one. *)
enforceRateLimitOffByOne(minCount, dayCount, mode) ==
  IF minCount > perMinMax(mode) + 1
    THEN [ok |-> FALSE, status |-> 429, retryAfterSec |-> 60, message |-> "Too many requests. Please slow down."]
  ELSE IF dayCount > perDayMax(mode)
    THEN [ok |-> FALSE, status |-> 429, retryAfterSec |-> 3600, message |-> "Daily limit reached. Try again later."]
  ELSE [ok |-> TRUE, status |-> 200, retryAfterSec |-> 0, message |-> "none"]

(* enforceRateLimit once both counts are in. *)
enforceRateLimit(minCount, dayCount, mode) ==
  IF minCount > perMinMax(mode)
    THEN [ok |-> FALSE, status |-> 429, retryAfterSec |-> 60, message |-> "Too many requests. Please slow down."]
  ELSE IF dayCount > perDayMax(mode)
    THEN [ok |-> FALSE, status |-> 429, retryAfterSec |-> 3600, message |-> "Daily limit reached. Try again later."]
  ELSE [ok |-> TRUE, status |-> 200, retryAfterSec |-> 0, message |-> "none"]

(* The response to a request enforceRateLimit let through: the body parse,
   then the plan. *)
AfterRateLimit(id, bodyOk, nth) ==
  IF bodyOk THEN Reply(200, NULL, "none", TRUE, id, nth)
  ELSE Reply(400, NULL, "Invalid JSON body.", FALSE, id, nth)

(* The handler instance that takes the next request. *)
FreeProc(p) == req[p].stage = "idle" /\ \A q \in Procs : q < p => req[q].stage # "idle"

(* A request reaches POST, which runs to the two increments: the credential
   check, the identity, and enforceRateLimit's hasRedis branch. *)
Arrive(p, id, bodyOk) ==
  /\ FreeProc(p)
  /\ id = caller
  /\ issued[id] < MaxRequests
  /\ issued' = [issued EXCEPT ![id] = @ + 1]
  /\ IF ~deploy.googleKey
       THEN /\ reply' = Reply(500, NULL, "Missing GOOGLE_PLACES_API_KEY.", FALSE, id, 0)
            /\ UNCHANGED <<req, admits>>
     ELSE IF ~hasRedis(deploy)
       THEN IF deploy.production
              THEN /\ reply' = Reply(500, NULL, "Server not configured (rate limiter missing).", FALSE, id, 0)
                   /\ UNCHANGED <<req, admits>>
              ELSE /\ reply' = AfterRateLimit(id, bodyOk, 0)
                   /\ admits' = [admits EXCEPT ![id].cur = @ + 1]
                   /\ UNCHANGED req
     ELSE /\ req' = [req EXCEPT ![p] = [IdleReq EXCEPT !.stage = "counting", !.id = id]]
          /\ reply' = NoReply
          /\ UNCHANGED admits
  /\ UNCHANGED <<deploy, caller, clock, store, failed, counted, windowAdmits>>
  /\ UNCHANGED <<planVars, ioVars, laneVars, auxVars>>

(* Redis runs the script on the minute key and the answer reaches the handler. *)
EvalMin(p) ==
  /\ req[p].stage = "counting"
  /\ req[p].minCount = NULL
  /\ LET id == req[p].id
         key == MinKey(id)
         fresh == ~Live(store[key], clock)
         e == EvalIncr(store[key], clock, MINUTE_MS)
         nth == IF fresh THEN 1 ELSE counted[id] + 1
     IN /\ store' = [store EXCEPT ![key] = e.entry]
        /\ req' = [req EXCEPT ![p].minCount = redisIncrWithTtl(e.result),
                              ![p].nth = nth,
                              ![p].countedAt = clock,
                              ![p].windowEnd = e.entry.expiresAt]
        /\ counted' = [counted EXCEPT ![id] = nth]
        /\ windowAdmits' = [windowAdmits EXCEPT ![id] = IF fresh THEN 0 ELSE @]
  /\ reply' = NoReply
  /\ UNCHANGED <<deploy, caller, clock, failed, issued, admits>>
  /\ UNCHANGED <<planVars, ioVars, laneVars, auxVars>>

(* Redis runs the script on the day key and the answer reaches the handler. *)
EvalDay(p) ==
  /\ req[p].stage = "counting"
  /\ req[p].dayCount = NULL
  /\ LET key == DayKey(req[p].id, clock)
         e == EvalIncr(store[key], clock, msUntilUtcMidnight(clock))
     IN /\ store' = [store EXCEPT ![key] = e.entry]
        /\ req' = [req EXCEPT ![p].dayCount = redisIncrWithTtl(e.result)]
  /\ reply' = NoReply
  /\ UNCHANGED <<deploy, caller, clock, failed, issued, counted, windowAdmits, admits>>
  /\ UNCHANGED <<planVars, ioVars, laneVars, auxVars>>

(* A pipeline call fails or times out: redisPipeline throws, Promise.all
   rejects and POST's catch answers. *)
EvalFails(p) ==
  /\ req[p].stage = "counting"
  /\ req[p].minCount = NULL \/ req[p].dayCount = NULL
  /\ ~failed
  /\ failed' = TRUE
  /\ reply' = Reply(500, NULL, "Plan generation failed.", FALSE, req[p].id, req[p].nth)
  /\ req' = [req EXCEPT ![p] = IdleReq]
  /\ UNCHANGED <<deploy, caller, clock, store, issued, counted, windowAdmits, admits>>
  /\ UNCHANGED <<planVars, ioVars, laneVars, auxVars>>

(* Mutant of Decide: the body is parsed before the rate limit is applied. *)
DecideParsesFirst(p, bodyOk) ==
  /\ req[p].stage = "counting"
  /\ req[p].minCount # NULL
  /\ req[p].dayCount # NULL
  /\ LET id == req[p].id
         rl == enforceRateLimit(req[p].minCount, req[p].dayCount, ModeOf(id))
         sameWindow == Live(store[MinKey(id)], clock) /\ store[MinKey(id)].expiresAt = req[p].windowEnd
     IN IF ~rl.ok /\ bodyOk
          THEN /\ reply' = Reply(rl.status, IF rl.retryAfterSec # 0 THEN rl.retryAfterSec ELSE NULL,
                                 rl.message, FALSE, id, req[p].nth)
               /\ UNCHANGED <<windowAdmits, admits>>
          ELSE /\ reply' = AfterRateLimit(id, bodyOk, req[p].nth)
               /\ windowAdmits' = [windowAdmits EXCEPT ![id] = IF sameWindow THEN @ + 1 ELSE @]
               /\ admits' = [admits EXCEPT
                               ![id].cur = IF req[p].countedAt = clock THEN @ + 1 ELSE @,
                               ![id].prev = IF req[p].countedAt = clock - TickMs THEN @ + 1 ELSE @]
  /\ req' = [req EXCEPT ![p] = IdleReq]
  /\ UNCHANGED <<deploy, caller, clock, store, failed, issued, counted>>
  /\ UNCHANGED <<planVars, ioVars, laneVars, auxVars>>

(* Both counts are in: enforceRateLimit decides and POST answers; bodyOk is
   what req.json() then finds. *)
Decide(p, bodyOk) ==
  /\ req[p].stage = "counting"
  /\ req[p].minCount # NULL
  /\ req[p].dayCount # NULL
  /\ LET id == req[p].id
         rl == enforceRateLimit(req[p].minCount, req[p].dayCount, ModeOf(id))
         sameWindow == Live(store[MinKey(id)], clock) /\ store[MinKey(id)].expiresAt = req[p].windowEnd
     IN IF ~rl.ok
          THEN /\ reply' = Reply(rl.status, IF rl.retryAfterSec # 0 THEN rl.retryAfterSec ELSE NULL,
                                 rl.message, FALSE, id, req[p].nth)
               /\ UNCHANGED <<windowAdmits, admits>>
          ELSE /\ reply' = AfterRateLimit(id, bodyOk, req[p].nth)
               /\ windowAdmits' = [windowAdmits EXCEPT ![id] = IF sameWindow THEN @ + 1 ELSE @]
               /\ admits' = [admits EXCEPT
                               ![id].cur = IF req[p].countedAt = clock THEN @ + 1 ELSE @,
                               ![id].prev = IF req[p].countedAt = clock - TickMs THEN @ + 1 ELSE @]
  /\ req' = [req EXCEPT ![p] = IdleReq]
  /\ UNCHANGED <<deploy, caller, clock, store, failed, issued, counted>>
  /\ UNCHANGED <<planVars, ioVars, laneVars, auxVars>>

(* Time passes; Redis drops the keys whose expiry has come. *)
Tick ==
  /\ TickOf(clock) < MaxTick
  /\ clock' = clock + TickMs
  /\ store' = [k \in Keys |-> IF Live(store[k], clock') THEN store[k] ELSE Absent]
  /\ counted' = [id \in Identities |-> IF Live(store[MinKey(id)], clock') THEN counted[id] ELSE 0]
  /\ windowAdmits' = [id \in Identities |-> IF Live(store[MinKey(id)], clock') THEN windowAdmits[id] ELSE 0]
  /\ admits' = [id \in Identities |-> [prev |-> admits[id].cur, cur |-> 0]]
  /\ reply' = NoReply
  /\ UNCHANGED <<deploy, caller, req, failed, issued>>
  /\ UNCHANGED <<planVars, ioVars, laneVars, auxVars>>

InitRate ==
  /\ \E d \in Deployments, id \in Identities : InitRateOf(d, id)
  /\ pc = "idle"
  /\ body = [vibe |-> "Social", fresh |-> CHOOSE f \in FreshnessInputs : f.seenPlaceIds = ArrayOf(<<>>)]
  /\ env = [weather |-> NoWeather, now |-> StartMs]
  /\ InitPlanIdle
  /\ InitIoIdle
  /\ InitLanesIdle
  /\ InitAuxIdle

NextRate ==
  \/ \E p \in Procs, id \in Identities, bodyOk \in BOOLEAN : Arrive(p, id, bodyOk)
  \/ \E p \in Procs : EvalMin(p)
  \/ \E p \in Procs : EvalDay(p)
  \/ \E p \in Procs : EvalFails(p)
  \/ \E p \in Procs, bodyOk \in BOOLEAN : Decide(p, bodyOk)
  \/ Tick

SpecRate == InitRate /\ [][NextRate]_vars

(***************************************************************************)
(* Properties                                                              *)
(***************************************************************************)
Done == pc = "done"

(* The vibe the request normalises to, stated on the raw body. *)
RequestVibe == IF body.vibe \in Vibes THEN body.vibe ELSE "Social"

MinutesLeft(o) == (o.closeTs - env.now) \div MS_PER_MIN
DistanceKm(o) == Abs(o.pos - CENTER)
BadWeather == wx.flags.precip \/ wx.flags.veryCold \/ wx.flags.veryWindy
Times(s, c) == Cardinality({i \in DOMAIN s : s[i].category = c})
Ids(s) == {s[i].placeId : i \in DOMAIN s}

(* C1: every Option of the response, in options and in meta.pool, has a
   category of the allowed-category list of the request's normalised vibe. *)
C1_CategoryAllowed ==
  /\ \A i \in DOMAIN response.options :
       response.options[i].category \in Range(ALLOWED_BY_VIBE[RequestVibe])
  /\ \A i \in DOMAIN response.pool :
       response.pool[i].category \in Range(ALLOWED_BY_VIBE[RequestVibe])

(* C1 witness: an unrecognised vibe, all three lane batteries run, a full
   shortlist and a pool holding a venue only a fallback vibe's lanes return. *)
C1_Witness ==
  /\ Done
  /\ body.vibe \notin Vibes
  /\ laneIdx = 3
  /\ Len(response.options) = SHORTLIST_SIZE
  /\ \E i \in DOMAIN response.pool : RequestVibe \notin Place(response.pool[i].placeId).lanes

StrictlyFeasible(o) ==
  /\ Place(o.placeId).openNow = "true"
  /\ o.openStatus = StatusOpenCloses
  /\ o.closeTs # NULL
  /\ o.closeTs - env.now >= 75 * MS_PER_MIN
  /\ DistanceKm(o) <= 10

(* C2: every shortlist Option, while the shortlist is picked and in the
   response, is open now, has a known closing instant, at least 75 minutes
   left and lies at most 10 km from the centre. *)
C2_ShortlistStrict ==
  /\ \A i \in DOMAIN picked : StrictlyFeasible(picked[i])
  /\ \A i \in DOMAIN response.options : StrictlyFeasible(response.options[i])

(* C2 witness: a full shortlist holding the venue that closes in exactly 75
   minutes and the venue exactly 10 km out. *)
C2_Witness ==
  /\ Done
  /\ Len(response.options) = SHORTLIST_SIZE
  /\ \E i \in DOMAIN response.options : MinutesLeft(response.options[i]) = 75
  /\ \E i \in DOMAIN response.options : DistanceKm(response.options[i]) = 10

(* C3: every swap pool Option lies at most 14 km from the centre and, when
   its closing time is known, has at least 45 minutes left. *)
C3_PoolRelaxed ==
  \A i \in DOMAIN response.pool :
    LET o == response.pool[i] IN
      /\ DistanceKm(o) <= 14
      /\ o.closeTs # NULL => o.closeTs - env.now >= 45 * MS_PER_MIN

(* C3 witness: a pool with an Option of unknown hours, one with exactly 45
   minutes left and one beyond the shortlist's 10 km. *)
C3_Witness ==
  /\ Done
  /\ \E i \in DOMAIN response.pool :
       response.pool[i].closeTs = NULL /\ response.pool[i].closingTime = NoLabel
  /\ \E i \in DOMAIN response.pool : MinutesLeft(response.pool[i]) = 45
  /\ \E i \in DOMAIN response.pool : DistanceKm(response.pool[i]) > 10

(* The identifiers of the swapped list as the caller sent it: every string
   entry, trimmed. *)
SentSwapped ==
  LET x == body.fresh.swappedPlaceIds
  IN IF x.isArray THEN {x.items[i].id : i \in {j \in DOMAIN x.items : x.items[j].kind = "string"}}
     ELSE {}

(* The first 220 non-empty string entries of the swapped list, trimmed. *)
SentSwappedWithinCap ==
  LET x == body.fresh.swappedPlaceIds
      valid == IF x.isArray THEN SelectSeq(x.items, LAMBDA v : v.kind = "string" /\ v.id # 0)
               ELSE <<>>
  IN {valid[i].id : i \in 1..Min2(Len(valid), 220)}

(* C4 as stated: no swap pool Option has an identifier present in the swapped
   list the caller sent. *)
C4_NoSentSwappedInPool ==
  \A i \in DOMAIN response.pool : response.pool[i].placeId \notin SentSwapped

(* C4 amended: no swap pool Option has an identifier among the first 220
   non-empty string entries (trimmed) of the swapped list the caller sent. *)
C4_NoCappedSwappedInPool ==
  \A i \in DOMAIN response.pool : response.pool[i].placeId \notin SentSwappedWithinCap

(* C4 witness: the lanes returned venues the caller had swapped away (one
   of them sent with surrounding blanks) and the pool is not empty. *)
C4_Witness ==
  /\ Done
  /\ Len(response.pool) > 0
  /\ \E i \in DOMAIN allCandidates : allCandidates[i].placeId \in SentSwappedWithinCap
  /\ \E i \in DOMAIN body.fresh.swappedPlaceIds.items :
       LET e == body.fresh.swappedPlaceIds.items[i]
       IN e.padded /\ e.id \in Ids(allCandidates)

(* Slots a list can fill with at most 2 items per category. *)
CapSlots(s) ==
  Cardinality({i \in DOMAIN s : Cardinality({j \in 1..(i - 1) : s[j].category = s[i].category}) < 2})

DistinctCats(s) == {s[i].category : i \in DOMAIN s}

(* C5 as stated: with at least 3 distinct categories among the strict-feasible
   candidates and a 5-item shortlist, no category appears more than twice. *)
C5_CapWithThreeCategories ==
  (Done /\ Cardinality(DistinctCats(strictCandidates)) >= 3 /\ Len(response.options) = 5)
    => \A c \in Categories : Times(response.options, c) <= 2

(* C5 amended: when the first 30 strict-feasible candidates can fill 5 slots
   with at most 2 per category, no category appears more than twice in a
   5-item shortlist. *)
C5_CapWhenFillable ==
  (Done /\ CapSlots(Take(strictCandidates, 30)) >= 5 /\ Len(response.options) = 5)
    => \A c \in Categories : Times(response.options, c) <= 2

(* C5 witness: a 5-item shortlist drawn from at least 3 categories, fillable
   under the cap, one category having more than 2 candidates. *)
C5_Witness ==
  /\ Done
  /\ Len(response.options) = 5
  /\ CapSlots(Take(strictCandidates, 30)) >= 5
  /\ Cardinality(DistinctCats(strictCandidates)) >= 3
  /\ \E c \in Categories : Times(strictCandidates, c) > 2

IndexIn(s, id) == CHOOSE i \in DOMAIN s : s[i].placeId = id

(* C6: the returned swap pool is a subsequence of the relaxed-feasible
   options, in descending score order, with no category more than 6 times
   and at most 60 Options. *)
C6_PoolDiversified ==
  LET pool == response.pool IN
    /\ \A i \in DOMAIN pool : \E j \in DOMAIN swapFeasible : swapFeasible[j] = pool[i]
    /\ \A i, k \in DOMAIN pool :
         i < k => /\ IndexIn(swapFeasible, pool[i].placeId) < IndexIn(swapFeasible, pool[k].placeId)
                  /\ pool[i].score >= pool[k].score
    /\ \A c \in Categories : Times(pool, c) <= 6
    /\ Len(pool) <= 60

(* C6 witness: a category with more than 6 relaxed-feasible options, cut to 6
   in the pool, and Options of different scores in the pool. *)
C6_Witness ==
  /\ Done
  /\ \E c \in Categories : Times(swapFeasible, c) > 6 /\ Times(response.pool, c) = 6
  /\ \E i, k \in DOMAIN response.pool : response.pool[i].score > response.pool[k].score

(* C7 as stated: an option with an outdoor-leaning category (allowed, open,
   within 10 km, not closing within 75 minutes), when the weather flags show
   precipitation, very cold or very windy, is rejected by both profiles with
   reason weather_block and is in neither the shortlist nor the swap pool,
   its closing time known or unknown. *)
C7_WeatherBlocksOutdoor ==
  Done =>
    \A i \in DOMAIN deduped :
      LET o == deduped[i] IN
        ( /\ isOutdoorishCategory(o.category)
          /\ BadWeather
          /\ DistanceKm(o) <= 10
          /\ o.closeTs = NULL \/ MinutesLeft(o) >= 75 )
        => /\ RejectReason(o, StrictProfile) = "weather_block"
           /\ RejectReason(o, RelaxedProfile) = "weather_block"
           /\ o.placeId \notin Ids(response.options)
           /\ o.placeId \notin Ids(response.pool)

(* A Cozy Dessert candidate closing 30 minutes from now, otherwise feasible. *)
ClosesInHalfHour(o) ==
  /\ vibe = "Cozy"
  /\ o.category = "Dessert"
  /\ o.closeTs # NULL
  /\ o.closeTs - env.now = 30 * MS_PER_MIN
  /\ o.openStatus = StatusOpenCloses
  /\ DistanceKm(o) <= 10

(* C8 as stated: a Cozy Dessert candidate closing 30 minutes from now is
   rejected by the strict profile with closing_soon and accepted by the
   relaxed profile into the swap pool. *)
C8_HalfHourInPool ==
  Done =>
    \A i \in DOMAIN deduped :
      ClosesInHalfHour(deduped[i])
        => /\ RejectReason(deduped[i], StrictProfile) = "closing_soon"
           /\ RejectReason(deduped[i], RelaxedProfile) = "none"
           /\ deduped[i].placeId \in Ids(response.pool)

(* C8 amended: a Cozy Dessert candidate closing 30 minutes from now is
   rejected with closing_soon by the strict profile and by the relaxed
   profile (whose minimum is 45 minutes), and is in neither the shortlist
   nor the swap pool. *)
C8_HalfHourRejected ==
  Done =>
    \A i \in DOMAIN deduped :
      ClosesInHalfHour(deduped[i])
        => /\ RejectReason(deduped[i], StrictProfile) = "closing_soon"
           /\ RejectReason(deduped[i], RelaxedProfile) = "closing_soon"
           /\ deduped[i].placeId \notin Ids(response.options)
           /\ deduped[i].placeId \notin Ids(response.pool)

(* C8 witness: the response is out and a Cozy Dessert candidate closing in 30
   minutes went through both filters. *)
C8_Witness ==
  /\ Done
  /\ \E i \in DOMAIN deduped : ClosesInHalfHour(deduped[i])
  /\ droppedCounts["closing_soon"] >= 2

(* The per-minute cap of an identity's mode, as the claims state it. *)
MinuteCap(id) == IF id = "guest" THEN 3 ELSE 12

(* C9: a request whose place in its identity's current minute window is
   beyond the per-minute cap of its mode (3 guest, 12 authenticated) gets no
   plan, and the answer enforceRateLimit gives it is status 429 with a
   retry-after above 0. *)
C9_OverCapDenied ==
  (reply.status # 0 /\ reply.nth > MinuteCap(reply.id))
    => /\ ~reply.plan
       /\ reply.status # 200
       /\ reply.error # "Plan generation failed."
            => reply.status = 429 /\ reply.retryAfter # NULL /\ reply.retryAfter > 0

(* C9 witness: the 4th guest request of a minute window is answered 429 with
   retry-after 60. *)
C9_Witness ==
  /\ reply.id = "guest"
  /\ reply.nth = 4
  /\ reply.status = 429
  /\ reply.retryAfter = 60
  /\ windowAdmits["guest"] = 3

(* C10 as stated: for every identity and every interval of 60 seconds, the
   requests enforceRateLimit admitted in the interval are at most the
   per-minute cap of the identity's mode. *)
C10_SlidingWindow ==
  hasRedis(deploy) =>
    \A id \in Identities : admits[id].prev + admits[id].cur <= MinuteCap(id)

(* C10 amended: the window is fixed, 60 s from the request that creates the
   minute counter; of the requests counted in one such window at most the
   per-minute cap of the identity's mode are admitted. *)
C10_PerWindowCap ==
  \A id \in Identities : windowAdmits[id] <= MinuteCap(id)

(* C10 witness: a second window of the guest, in which more requests were
   counted than the cap and as many as the cap admitted. *)
C10_Witness ==
  /\ TickOf(clock) >= 2
  /\ store[MinKey("guest")].expiresAt > StartMs + MINUTE_MS
  /\ counted["guest"] > 3
  /\ windowAdmits["guest"] = 3

(* C11: no increment is lost under interleaved requests of one identity in
   one window: the live minute counter equals the number of increments run
   in the window, every request reads the ordinal of its own increment, two
   requests in flight never read the same minute or day count, and no more
   than the cap are let through. *)
C11_NoLostIncrement ==
  /\ \A id \in Identities :
       /\ Live(store[MinKey(id)], clock) => store[MinKey(id)].count = counted[id]
       /\ windowAdmits[id] <= MinuteCap(id)
  /\ \A p \in Procs :
       (req[p].minCount # NULL /\ req[p].windowEnd = store[MinKey(req[p].id)].expiresAt)
         => /\ req[p].minCount = req[p].nth
            /\ req[p].minCount \in 1..store[MinKey(req[p].id)].count
  /\ \A p, q \in Procs :
       p # q =>
         /\ (req[p].minCount # NULL /\ req[q].minCount # NULL /\ req[p].windowEnd = req[q].windowEnd)
              => req[p].minCount # req[q].minCount
         /\ (req[p].dayCount # NULL /\ req[q].dayCount # NULL) => req[p].dayCount # req[q].dayCount

(* C11 witness: two guest requests in flight together in a fresh window have
   been counted on both keys, one reading 1 and the other 2. *)
C11_Witness ==
  /\ caller = "guest"
  /\ \A p \in Procs : req[p].stage = "counting" /\ req[p].minCount # NULL /\ req[p].dayCount # NULL
  /\ req[1].windowEnd = req[2].windowEnd
  /\ {req[1].minCount, req[2].minCount} = {1, 2}
  /\ {req[1].dayCount, req[2].dayCount} = {1, 2}

TtlOf(k, nowMs) == IF k.kind = "rl:min" THEN MINUTE_MS ELSE msUntilUtcMidnight(nowMs)

(* C12: every step leaves each existing counter with an expiry; a step that
   creates a counter sets it to 1 with the expiry one TTL ahead, and a step
   that counts on an existing counter adds one and keeps its expiry. *)
C12_ExpiryWithCreation ==
  [][\A k \in Keys :
       /\ store'[k].count > 0 => store'[k].expiresAt # NULL /\ store'[k].expiresAt > clock'
       /\ (store'[k] # store[k] /\ store'[k].count > 0) =>
            IF store[k].count > 0
              THEN store'[k].count = store[k].count + 1 /\ store'[k].expiresAt = store[k].expiresAt
              ELSE store'[k].count = 1 /\ store'[k].expiresAt = clock + TtlOf(k, clock)]_vars

(* C12 witness: a guest's minute counter made one tick ago has been counted
   on again in this tick and still expires a minute after it was made. *)
C12_Witness ==
  /\ caller = "guest"
  /\ store[MinKey("guest")].count >= 2
  /\ store[MinKey("guest")].expiresAt = clock + TickMs
  /\ \E p \in Procs : req[p].countedAt = clock /\ req[p].minCount = store[MinKey("guest")].count

(* C13 (as the spec states it): with the provider key present, a development
   deployment never answers 500, and a production deployment answers 500
   only with the rate-limiter configuration error. *)
C13_UnavailableBackend ==
  (deploy.googleKey /\ reply # NoReply) =>
    IF deploy.production
      THEN reply.status = 500 => reply.error = "Server not configured (rate limiter missing)."
      ELSE reply.status # 500

(* C14: the finished request answers 200; a shortlist under SHORTLIST_SIZE
   comes with limitedAvailability set and a reason, and limitedAvailability
   never comes without a reason. *)
C14_ThinShortlistReported ==
  Done =>
    /\ response.status = 200
    /\ Len(response.options) < SHORTLIST_SIZE =>
         response.limitedAvailability /\ response.reason # "null"
    /\ response.limitedAvailability => response.reason # "null"

(* C14 witness: a finished request with no option at all. *)
C14_Witness ==
  /\ Done
  /\ Len(response.options) = 0
  /\ Len(deduped) > 0
  /\ response.limitedAvailability

(* Candidates each filter pass turned away, by cause: hardReject's answer in
   the swap-pool pass; in the shortlist pass the filter's own open-now and
   known-close tests (hours not known), else hardReject's answer. *)
ShortlistCause(o) ==
  IF ~StrictPrecheck(o) THEN "unknown_hours" ELSE RejectReason(o, StrictProfile)
ExcludedBy(cause) ==
  Cardinality({i \in DOMAIN deduped : RejectReason(deduped[i], RelaxedProfile) = cause})
    + Cardinality({i \in DOMAIN deduped : ShortlistCause(deduped[i]) = cause})
ReasonCause(reason) ==
  CASE reason = "weather" -> "weather_block"
    [] reason = "closing_soon" -> "closing_soon"
    [] reason = "unknown_hours" -> "unknown_hours"
    [] OTHER -> "none"

(* C15 (as the spec states it): under a thin shortlist, when one of weather,
   closing-soon and unknown-hours kept candidates off it, the reason names a
   cause that kept off the most. *)
C15_ReasonMostFrequent ==
  (Done /\ Len(response.options) < SHORTLIST_SIZE) =>
    LET most == Max2(ExcludedBy("weather_block"),
                     Max2(ExcludedBy("closing_soon"), ExcludedBy("unknown_hours")))
    IN most > 0 =>
         /\ ReasonCause(response.reason) # "none"
         /\ ExcludedBy(ReasonCause(response.reason)) = most

(***************************************************************************)
(* C20: while the lanes of one vibe run, at no instant are more than       *)
(* LANE_CONCURRENCY lane searches in flight, nearby-keyword and text lanes *)
(* counted together.                                                       *)
(***************************************************************************)
C20_LaneFanOutCapped ==
  pc = "fanout" => Cardinality(InFlight) <= LANE_CONCURRENCY

(***************************************************************************)
(* C16: a cache read that fails or finds nothing never fails the caller:   *)
(* the search or detail fetch goes on to the provider and the request      *)
(* completes normally.                                                     *)
(***************************************************************************)
C16_CacheReadNeverFails ==
  (pc = "done" /\ hasRedis(deploy) /\ fault.site \in {"none", "redisGet"}) => response.status = 200

(***************************************************************************)
(* C17: a cache write that fails is swallowed: the lane searches and the   *)
(* detail fetches return what the provider gave, and the request goes on   *)
(* as it does when the write succeeds.                                     *)
(***************************************************************************)
RECURSIVE ProviderCandidates(_, _)
ProviderCandidates(vibeOrder, n) ==
  IF n = 0 THEN <<>>
  ELSE ProviderCandidates(vibeOrder, n - 1) \o collectCandidatesMultiLane(vibeOrder[n])

WriteFails == hasRedis(deploy) /\ fault = Fault("redisSet", "throws")

C17_CacheWriteSwallowed ==
  WriteFails =>
    /\ pc = "done" => response.status = 200
    /\ pc = "build" => allCandidates = ProviderCandidates(fallbackVibesForSwap(vibe), laneIdx)
    /\ pc = "score" =>
         built = buildOptionsFromCandidates(
                   SelectSeq(allCandidates, LAMBDA c : c.placeId \notin Range(swappedIds)),
                   wx.tzOffsetSec, vibe, AllowedSet(vibe), CENTER, env.now,
                   cache.details, hasRedis(deploy), NoFault).value
    /\ cache \in {ColdCache, WarmCache(RequestVibe, body.fresh.vegFriendly, env)}

C17_Witness ==
  /\ WriteFails
  /\ cache = ColdCache
  /\ pc = "done"
  /\ response.status = 200
  /\ Len(response.options) > 0

(***************************************************************************)
(* C18: an external call (lane search, detail fetch, weather) that times   *)
(* out or fails in any way gives an empty result for that call only; the   *)
(* request still answers 200.                                              *)
(***************************************************************************)
C18_ExternalFailureDegrades ==
  (pc = "done" /\ fault.site \in {"weather", "nearby", "text", "details"}) => response.status = 200

(***************************************************************************)
(* C19: the copy generator is optional: when it is absent, fails or gives  *)
(* unusable output the request still succeeds and every returned option    *)
(* carries the fallback why and the fallback watchouts.                    *)
(***************************************************************************)
FallbackCopy(c) ==
  /\ c.why = FallbackWhy(vibe)
  /\ c.watchouts \in {FallbackWatchouts, <<FallbackWatchouts[1], VegWatchout>>}

C19_CopyOptional ==
  (pc = "done" /\ fault.site = "copy") =>
    /\ response.status = 200
    /\ \A i \in DOMAIN response.copy.options : FallbackCopy(response.copy.options[i])
    /\ \A i \in DOMAIN response.copy.pool : FallbackCopy(response.copy.pool[i])

(* C21: for every request, whatever the number of merged candidates, at most
   DETAILS_CAP_TOTAL details calls are made, and no placeId is called twice. *)
C21_DetailBudget ==
  /\ Len(detailCalls) <= DETAILS_CAP_TOTAL
  /\ \A i, j \in DOMAIN detailCalls : detailCalls[i] = detailCalls[j] => i = j

(* The details stage has run on more distinct candidates than the budget and
   has used the whole budget. *)
C21_Witness ==
  /\ pc = "score"
  /\ Cardinality({allCandidates[k].placeId : k \in DOMAIN allCandidates} \ Range(swappedIds))
       > DETAILS_CAP_TOTAL
  /\ Len(detailCalls) = DETAILS_CAP_TOTAL

(* The candidates handed to buildOptionsFromCandidates: the merged list
   without the swapped venues. *)
CandidatesFiltered == SelectSeq(allCandidates, LAMBDA c : c.placeId \notin Range(swappedIds))

(* No candidate of cands outside called is strictly closer to the center
   than one inside. *)
NearestCalled(cands, called) ==
  \A a, b \in DOMAIN cands :
    (cands[a].placeId \notin called /\ cands[b].placeId \in called)
      => haversineKm(CENTER, cands[a].pos) >= haversineKm(CENTER, cands[b].pos)

(* Some candidate of cands got no call although it is not in seen and stands
   before a candidate in seen that got one. *)
SeenCalledFirst(cands, called, seen) ==
  \E a, b \in DOMAIN cands :
    /\ a < b
    /\ cands[a].placeId \notin seen \cup called
    /\ cands[b].placeId \in seen \cap called

(* C26: when more candidates exist than the details budget, no candidate left
   without a details call is strictly closer to the search center than one
   that got a call, whatever its seen status or place in the merged list. *)
C26_NearestFetched ==
  pc = "score" => NearestCalled(AsArray(CandidatesFiltered), Range(detailCalls))

(* The budget binds, and a seen venue got a call while an unseen one that
   stands before it in the not-seen-first list got none. *)
C26_Witness ==
  /\ pc = "score"
  /\ Len(CandidatesFiltered) > DETAILS_CAP_TOTAL
  /\ SeenCalledFirst(AsArray(CandidatesFiltered), Range(detailCalls), Range(seenIds))

(* A details call starts in this step. *)
DetailStarts == \E k \in DOMAIN jobs' : k \notin DetailsInFlight /\ k \in DetailsInFlight'

(* A details call that was out returns in this step. *)
DetailWorkerFreed == \E k \in DetailsInFlight : k \notin DetailsInFlight'

(* C22: at no instant are more than DETAILS_CONCURRENCY details calls of a
   request in flight, and once the pool runs a call starts only in a step in
   which a worker's previous call has returned. *)
C22_DetailsPoolBounded ==
  /\ [](Cardinality(DetailsInFlight) <= DETAILS_CONCURRENCY)
  /\ [][(pc = "detailsFanout" /\ DetailStarts) => DetailWorkerFreed]_vars

(* The pool is full again after a worker whose call returned has taken an
   item beyond the first DETAILS_CONCURRENCY. *)
C22_Witness ==
  /\ pc = "detailsFanout"
  /\ Cardinality(DetailsInFlight) = DETAILS_CONCURRENCY
  /\ nextIdx > DETAILS_CONCURRENCY
  /\ \E k \in DOMAIN out : out[k].written

(* C23: no Option of the shortlist comes from a candidate that no lane of
   the primary vibe returned: candidates only the lanes of a fallback vibe
   returned go to the swap pool only. *)
C23_ShortlistFromPrimaryLanes ==
  \A i \in DOMAIN response.options :
    response.options[i].placeId \in Ids(collectCandidatesMultiLane(RequestVibe))

(* C24: with Math.random() following the same sequence in both, two runs of
   scoring and selection on the same built options, flags and time return the
   same shortlist in the same order. *)
C24_SameDrawsSameShortlist ==
  (pc = "done" /\ probe.fn = "runs" /\ probe.run = 2) => response.options = probe.first

(* Both runs have answered a shortlist of several venues in which a draw put
   a venue before one with a higher score. *)
C24_Witness ==
  /\ pc = "done"
  /\ probe.fn = "runs"
  /\ probe.run = 2
  /\ Len(probe.first) >= 3
  /\ \E i, j \in DOMAIN response.options :
       i < j /\ response.options[i].score < response.options[j].score

(* No venue stands twice in the list. *)
Distinct(list) == \A i, j \in DOMAIN list : list[i].placeId = list[j].placeId => i = j

(* The candidates offered to the selection loop: top30. *)
Offered == Take(strictCandidates, TOP_N)

(* C30: the selection loop samples without replacement and ends after at
   most 5 iterations: every iteration moves one venue from remaining to
   picked, the shortlist has min(5, number of candidates offered) venues and
   none of them twice. *)
C30_SelectionLoopEnds ==
  /\ Len(picked) <= SHORTLIST_SIZE
  /\ Distinct(picked)
  /\ pc = "pick" => Len(picked) + Len(remaining) = Len(Offered)
  /\ (pc = "done" /\ response.status = 200) =>
       /\ Len(response.options) = Min2(SHORTLIST_SIZE, Len(Offered))
       /\ Distinct(response.options)

(* The loop was offered more venues than it picks and stopped at 5. *)
C30_Witness ==
  /\ pc = "done"
  /\ response.status = 200
  /\ Len(Offered) > SHORTLIST_SIZE
  /\ Len(response.options) = SHORTLIST_SIZE
  /\ Len(remaining) = Len(Offered) - SHORTLIST_SIZE

(* A period with both ends, on the circle of the week: its opening minute,
   its length (a close at or before the opening is a close in the week after)
   and how far into it the minute nowW is. *)
WholePeriod(p) == p.open.day # NULL /\ p.open.time # NULL /\ p.close.day # NULL /\ p.close.time # NULL
OpensAt(p) == p.open.day * DAY_MIN + (p.open.time \div 100) * 60 + (p.open.time % 100)
ClosesAt(p) == p.close.day * DAY_MIN + (p.close.time \div 100) * 60 + (p.close.time % 100)
LengthOf(p) == IF (ClosesAt(p) - OpensAt(p)) % WEEK = 0 THEN WEEK ELSE (ClosesAt(p) - OpensAt(p)) % WEEK
Into(p, nowW) == (nowW - OpensAt(p)) % WEEK
Contains(p, nowW) == WholePeriod(p) /\ Into(p, nowW) < LengthOf(p)

(* The periods of the probe that contain the city-local now, and the minutes
   each of them leaves. *)
ProbeNowW == NowW(probe.tzOffsetSec, probe.nowMs)
ActivePeriods == {k \in DOMAIN probe.periods : Contains(probe.periods[k], ProbeNowW)}
MinutesLeftIn(k) == LengthOf(probe.periods[k]) - Into(probe.periods[k], ProbeNowW)

(* C29: the closing time is computed only when open-now is true and a
   schedule is present; it is the close of the period that contains the
   current local instant (the earliest close when several do), strictly in
   the future, labelled with its local time of day; when no period contains
   the instant the closing time stays unknown. *)
C29_ClosingOfActivePeriod ==
  (pc = "probed" /\ probe.fn = "closingOf") =>
    /\ probe.result.found <=> (probe.openNow = "true" /\ ActivePeriods # {})
    /\ probe.result.found =>
         /\ probe.result.closeTs > probe.nowMs
         /\ \E k \in ActivePeriods :
              /\ probe.result.closeTs = probe.nowMs + MinutesLeftIn(k) * MS_PER_MIN
              /\ \A j \in ActivePeriods : MinutesLeftIn(k) <= MinutesLeftIn(j)
         /\ probe.result.closingTimeLabel =
              formatMinutesToLabel(minutesSinceMidnight(cityLocalNow(probe.tzOffsetSec,
                                                                     probe.result.closeTs)))
    /\ ~probe.result.found => probe.result = NoClose

(* The venue is open now and the local instant lies in a period that began
   before the end of the week and closes after it. *)
C29_Witness ==
  /\ pc = "probed"
  /\ probe.fn = "closingOf"
  /\ probe.result.found
  /\ \E k \in ActivePeriods : OpensAt(probe.periods[k]) > ProbeNowW

(* C29 as stated: when no period contains the current local instant, the
   closing time is that of the nearest period starting within the next 7 days. *)
C29_NextPeriodWhenNoneActive ==
  (/\ pc = "probed"
   /\ probe.fn = "closingOf"
   /\ probe.openNow = "true"
   /\ ActivePeriods = {}
   /\ \E k \in DOMAIN probe.periods : WholePeriod(probe.periods[k]))
    => probe.result.found

(* Whether a rejection reason matches the option of the probe, each reason
   taken on its own. *)
ProbeMinsLeft ==
  minutesUntilClose(WxOf(probe.env).cityNow, probe.opt.closingTime, probe.opt.closeTs, probe.env.now)
ProbeMatches(r) ==
  CASE r = "vibe_mismatch" -> probe.opt.category \notin AllowedSet(probe.vibe)
    [] r = "closed"        -> probe.opt.openStatus = StatusClosed
    [] r = "too_far"       -> Abs(probe.opt.pos - CENTER) > probe.args.maxDistKm
    [] r = "closing_soon"  -> ProbeMinsLeft # NULL /\ ProbeMinsLeft < probe.args.minRemaining
    [] r = "unknown_hours" -> ProbeMinsLeft = NULL /\ ~probe.args.allowUnknownHours
    [] r = "weather_block" ->
         /\ isOutdoorishCategory(probe.opt.category)
         /\ \/ WxOf(probe.env).flags.precip
            \/ WxOf(probe.env).flags.veryCold
            \/ WxOf(probe.env).flags.veryWindy
            \/ WxOf(probe.env).flags.cold /\ WxOf(probe.env).cityHour >= 18

(* The first reason of order that matches. *)
FirstMatch(order) ==
  order[CHOOSE i \in DOMAIN order : ProbeMatches(order[i]) /\ \A j \in 1..(i - 1) : ~ProbeMatches(order[j])]

SeveralMatch == Cardinality({r \in Reasons : ProbeMatches(r)}) >= 2

(* C25: for every option that matches more than one rejection reason,
   hardReject returns the first that matches in the order category not
   allowed, status text closed, distance above the profile maximum, hours
   unknown and disallowed, known remaining minutes below the profile
   minimum, weather. *)
C25_FirstReasonInCodeOrder ==
  (pc = "probed" /\ probe.fn = "hardReject" /\ SeveralMatch) =>
    probe.result = FirstMatch(<<"vibe_mismatch", "closed", "too_far", "unknown_hours", "closing_soon",
                                "weather_block">>)

(* An option whose status text says closed and that lies beyond the
   profile's distance has been rejected as closed. *)
C25_Witness ==
  /\ pc = "probed"
  /\ probe.fn = "hardReject"
  /\ ProbeMatches("closed")
  /\ ProbeMatches("too_far")
  /\ probe.result = "closed"

(* C25 as stated: the order is category not allowed, distance, closed, known
   remaining minutes below the minimum, unknown hours disallowed, weather. *)
C25_FirstReasonInStatedOrder ==
  (pc = "probed" /\ probe.fn = "hardReject" /\ SeveralMatch) =>
    probe.result = FirstMatch(<<"vibe_mismatch", "too_far", "closed", "closing_soon", "unknown_hours",
                                "weather_block">>)

(* The venues the provider's details report as permanently closed or as not
   open now, and those it reports without an open-now value. *)
ReportedShut(id) == Place(id).status = "CLOSED_PERMANENTLY" \/ Place(id).openNow = "false"
HoursUnreported(id) ==
  /\ Place(id).openNow = "unknown"
  /\ Place(id).status # "CLOSED_PERMANENTLY"
  /\ googleTypeToInternalCategory(Place(id).types, vibe) \in AllowedSet(vibe)

(* C28: a candidate whose details say permanently closed, or open-now
   false, yields no Option at all, neither built, nor scored, nor in the
   shortlist, nor in the pool; a candidate with unknown open-now whose
   details were fetched is built and is among the options the feasibility
   filter is run on. *)
C28_ClosedDroppedUnknownKept ==
  /\ \A id \in Ids(built) \cup Ids(deduped) \cup Ids(picked) \cup Ids(swapPool)
                \cup Ids(response.options) \cup Ids(response.pool) : ~ReportedShut(id)
  /\ pc \in {"score", "pick", "done"} =>
       \A id \in Range(detailCalls) : HoursUnreported(id) => id \in Ids(built)
  /\ pc \in {"pick", "done"} =>
       \A id \in Range(detailCalls) : HoursUnreported(id) => id \in Ids(deduped)

(* Details were fetched for a permanently closed venue, for one reported not
   open now and for one without an open-now value, and the last is in the
   pool of the response. *)
C28_Witness ==
  /\ pc = "done"
  /\ response.status = 200
  /\ \E id \in Range(detailCalls) : Place(id).status = "CLOSED_PERMANENTLY"
  /\ \E id \in Range(detailCalls) : Place(id).openNow = "false"
  /\ \E id \in Ids(response.pool) : Place(id).openNow = "unknown"

(* The identifiers the lanes of the vibes run so far returned. *)
LaneIds(answers) == UNION {Ids(answers[k]) : k \in DOMAIN answers}
ReturnedIds ==
  UNION {LaneIds(LaneAnswers(fallbackVibesForSwap(vibe)[i], vegFriendly)) : i \in 1..laneIdx}
ReturnedCount ==
  SumSeq([i \in 1..laneIdx |->
            SumSeq([k \in DOMAIN LaneAnswers(fallbackVibesForSwap(vibe)[i], vegFriendly) |->
                      Len(LaneAnswers(fallbackVibesForSwap(vibe)[i], vegFriendly)[k])])])

(* Every slot of out written so far holds the value its lane's promise has. *)
SlotsKept ==
  \A k \in DOMAIN out : out[k].written => out[k].value = jobs[k].value

(* Every slot of out holds what the provider answered on its lane. *)
SlotsHold(answers) ==
  \A k \in DOMAIN out : out[k] = [written |-> TRUE, value |-> answers[k]]

(* C27: while the lanes of a vibe complete, in whatever order, a result slot
   that is written holds what its lane returned; once all have completed
   every slot is written and the
   candidates hold each identifier once; the merged candidate set of the
   request holds each identifier once and holds every identifier returned
   by a lane of a vibe that was run, and no other. *)
C27_MergedByValue ==
  /\ pc = "fanout" => SlotsKept
  /\ pc = "collected" =>
       /\ SlotsHold(LaneAnswers(fallbackVibesForSwap(vibe)[1], vegFriendly))
       /\ laneIdx = 1
       /\ Distinct(allCandidates)
       /\ Ids(allCandidates) = ReturnedIds
  /\ pc = "score" =>
       /\ Distinct(allCandidates)
       /\ Ids(allCandidates) = ReturnedIds

(* Three vibes were run, their lanes returned some venue more than once,
   and the merged candidates are ready for the details. *)
C27_Witness ==
  /\ pc = "score"
  /\ laneIdx = 3
  /\ \A k \in DOMAIN out : out[k].written
  /\ Len(allCandidates) > 3
  /\ Len(allCandidates) < ReturnedCount

(* Some lane has completed and written its slot while a lane before it is
   still in flight. *)
LanesOutOfOrder ==
  /\ pc = "fanout"
  /\ \E j, k \in DOMAIN out : j < k /\ jobs[j].state = "inflight" /\ out[k].written

(* The shortlist of the response has SHORTLIST_SIZE venues, all of one category. *)
OneCategoryShortlist ==
  /\ pc = "done"
  /\ response.status = 200
  /\ Len(response.options) = SHORTLIST_SIZE
  /\ Cardinality({response.options[i].category : i \in DOMAIN response.options}) = 1

(* C31: a returned shortlist of 5 has a single category only when no
   strict-feasible candidate of another category exists. *)
C31_OneCategoryOnlyWithoutOther ==
  OneCategoryShortlist =>
    \A i \in DOMAIN strictCandidates : strictCandidates[i].category = response.options[1].category

(* The strict shortlist filter has accepted the option of the probe: it is
   open now with a known close, and hardReject under the strict profile
   returned null. *)
ProbeStrictAccepted ==
  /\ pc = "probed"
  /\ probe.fn = "hardReject"
  /\ probe.args = StrictProfile
  /\ StrictPrecheck(probe.opt)
  /\ probe.result = "none"

(* C33: every option the strict shortlist filter accepts is accepted by
   hardReject under the relaxed profile too, on the same option, instant,
   center and weather flags. *)
C33_StrictWithinRelaxed ==
  ProbeStrictAccepted =>
    hardReject(probe.opt, RelaxedProfile, AllowedSet(probe.vibe), CENTER, WxOf(probe.env).cityNow,
               WxOf(probe.env).cityHour, WxOf(probe.env).flags, probe.env.now) = "none"

(* The strict filter has accepted an option 9 km out that closes in two hours. *)
C33_Witness ==
  /\ ProbeStrictAccepted
  /\ Abs(probe.opt.pos - CENTER) = 9
  /\ ProbeMinsLeft = 120

(* The latest swapOption call found its option: what it started from. *)
SwapTried == client.generated /\ client.last.removedKey # NULL
ShortlistKeys(list) == {list[i].placeId : i \in DOMAIN list}

(* A pool item that is not a duplicate of the shortlist the call started
   from, not banned and not closed. *)
Eligible(cand) ==
  /\ cand.placeId \notin ShortlistKeys(client.last.before)
  /\ cand.placeId \notin client.last.banned
  /\ ~StatusIncludes(cand.openStatus, "closed")

(* How often the category stands in the shortlist without the removed option. *)
CountInRest(category) ==
  Cardinality({i \in DOMAIN client.last.before :
                 /\ client.last.before[i].placeId # client.last.removedKey
                 /\ client.last.before[i].category = category})

(* The key of the first eligible pool item under a category limit, NULL if none. *)
FirstUnder(limit) ==
  LET hits == {i \in DOMAIN client.pool :
                 Eligible(client.pool[i]) /\ CountInRest(client.pool[i].category) < limit}
  IN IF hits = {} THEN NULL ELSE client.pool[CHOOSE i \in hits : \A j \in hits : i <= j].placeId
FirstEligible ==
  LET hits == {i \in DOMAIN client.pool : Eligible(client.pool[i])}
  IN IF hits = {} THEN NULL ELSE client.pool[CHOOSE i \in hits : \A j \in hits : i <= j].placeId

(* C32: the replacement of a swap is the first pool item, in pool order,
   that is eligible and whose category stands fewer than 2 times in the
   rest of the shortlist; only if there is none, the first eligible one
   with fewer than 3; only if there is none, the first eligible one. *)
C32_ThreeTiersInOrder ==
  SwapTried =>
    client.last.nextKey =
      (IF FirstUnder(2) # NULL THEN FirstUnder(2)
       ELSE IF FirstUnder(3) # NULL THEN FirstUnder(3)
       ELSE FirstEligible)

(* A swap found no eligible pool item under the limit of 2 and took the
   first one under the limit of 3. *)
C32_Witness ==
  /\ SwapTried
  /\ FirstUnder(2) = NULL
  /\ client.last.nextKey = FirstUnder(3)
  /\ client.last.nextKey # NULL

(* A swap took its replacement in the third pass. *)
SwapThirdPass ==
  /\ SwapTried
  /\ FirstUnder(3) = NULL
  /\ client.last.nextKey # NULL

(* A swap took its replacement in the first pass, past an earlier eligible item. *)
SwapFirstPassSkips ==
  /\ SwapTried
  /\ FirstUnder(2) # NULL
  /\ FirstUnder(2) # FirstEligible

(* The latest swapOption call put nothing in: unknown id or no replacement. *)
SwapFailed == client.generated /\ client.toast \in {ToastNotFound, ToastNoMore}

(* C37: after any sequence of swapOption calls on one generated result the
   shortlist has the length it had, slot i holds id i, and no two entries
   share a venue key; a call that finds no replacement leaves shortlist,
   banned set and stored swapped history as they were. *)
C37_ShortlistShapeKept ==
  /\ [](client.generated =>
          /\ Len(client.options) = Len(response.options)
          /\ \A i \in DOMAIN client.options : client.options[i].id = i
          /\ Distinct(client.options))
  /\ [][(client.generated /\ SwapFailed') =>
          /\ client'.options = client.options
          /\ client'.bannedKeys = client.bannedKeys
          /\ client'.recentSwapped = client.recentSwapped]_vars

(* Two swaps have succeeded and a later call has found no replacement. *)
C37_Witness ==
  /\ client.generated
  /\ client.swaps >= 2
  /\ client.toast = ToastNoMore
  /\ Len(client.options) >= 2

(* C38: within one generated result, no venue that was swapped out of the
   shortlist stands in the shortlist again. *)
C38_SwappedOutStaysOut ==
  client.generated =>
    \A i \in DOMAIN client.options : optKey(client.options[i]) \notin client.removed

(* C39: for one generated pool the banned set only grows and every
   successful swap bans one key that was not banned before, so the
   successful swaps number at most the pool size; once they number the pool
   size, a swapOption call on any slot leaves the shortlist unchanged and
   reports that no swap options remain. *)
C39_SwapsBoundedByPool ==
  /\ [](client.generated =>
          /\ client.swaps = Cardinality(client.bannedKeys)
          /\ client.bannedKeys \subseteq ShortlistKeys(client.pool)
          /\ client.swaps <= Len(client.pool)
          /\ client.swaps = Len(client.pool) =>
               \A i \in DOMAIN client.options :
                 /\ swapOption(client, i).options = client.options
                 /\ swapOption(client, i).toast = ToastNoMore)
  /\ [][client.generated =>
          /\ client.bannedKeys \subseteq client'.bannedKeys
          /\ client'.swaps > client.swaps =>
               /\ client'.last.nextKey \notin client.bannedKeys
               /\ client'.bannedKeys = client.bannedKeys \cup {client'.last.nextKey}]_vars

(* As many swaps have succeeded as the pool has items, and a call after
   them has reported that none remain. *)
C39_Witness ==
  /\ client.generated
  /\ Len(client.pool) >= 3
  /\ client.swaps = Len(client.pool)
  /\ client.toast = ToastNoMore

(* What the store held when the first request arrived. *)
StoreAtStart == IF hasRedis(deploy) THEN WarmStore ELSE [k \in Keys |-> Absent]

(* The counts of a request put it over a cap of its identity. *)
OverCap(r) ==
  \/ r.minCount > perMinMax(ModeOf(r.id))
  \/ r.dayCount > perDayMax(ModeOf(r.id))

(* C35: POST checks the provider credential, then the rate limit, then
   parses the body: where the credential is missing every request is
   answered 500, none reaches the counters and no counter is incremented;
   a request whose body is not JSON is answered only after both counters
   were incremented for it, with 429 when its identity is over a cap and
   with 400 otherwise. *)
C35_CredentialRateLimitBody ==
  /\ [](~deploy.googleKey =>
          /\ reply.status \in {0, 500}
          /\ \A p \in Procs : req[p].stage = "idle"
          /\ \A k \in Keys : store[k].count <= StoreAtStart[k].count)
  /\ [][\A p \in Procs :
          Decide(p, FALSE) =>
            /\ req[p].minCount >= 1
            /\ req[p].dayCount >= 1
            /\ reply'.status = IF OverCap(req[p]) THEN 429 ELSE 400]_vars

(* A request counted beyond the minute cap of its identity, after the day
   counter was incremented too, has been answered 429. *)
C35_Witness ==
  /\ deploy.googleKey
  /\ reply.status = 429
  /\ reply.nth > perMinMax(ModeOf(reply.id))
  /\ store[DayKey(reply.id, clock)].count >= reply.nth

(* Where the credential is missing a request has been answered 500. *)
CredentialMissingAnswered ==
  /\ ~deploy.googleKey
  /\ reply.status = 500
  /\ issued[caller] > 0

(* C34: while an identity's minute counter exists no request, admitted or
   denied, moves its expiry, and the counter is gone once that expiry has
   come; the request that then counts first is counted as 1, and a request
   counted as 1 whose day count is within the daily cap is not answered 429. *)
C34_DeniedDoNotExtendLockout ==
  /\ [][\A id \in Identities :
          LET k == MinKey(id)
          IN store[k].count > 0 =>
               IF clock' < store[k].expiresAt
                 THEN store'[k].expiresAt = store[k].expiresAt
                 ELSE store'[k] = Absent]_vars
  /\ [][\A p \in Procs :
          /\ (EvalMin(p) /\ store[MinKey(req[p].id)].count = 0) => req'[p].minCount = 1
          /\ \A bodyOk \in BOOLEAN :
               (/\ Decide(p, bodyOk)
                /\ req[p].minCount = 1
                /\ req[p].dayCount <= perDayMax(ModeOf(req[p].id))) =>
                 reply'.status \in {200, 400}]_vars

(* The guest sent four requests within the first minute, the fourth over the
   cap, and a fifth once that minute was over: the fifth was counted as 1
   and admitted. *)
C34_Witness ==
  /\ caller = "guest"
  /\ ~failed
  /\ clock = StartMs + MINUTE_MS
  /\ issued["guest"] = 5
  /\ store[DayKey("guest", clock)].count = 5
  /\ store[MinKey("guest")] = [count |-> 1, expiresAt |-> clock + MINUTE_MS]
  /\ \A p \in Procs : req[p].stage = "idle"
  /\ reply.status = 200 /\ reply.id = "guest" /\ reply.nth = 1

(* A lane search of the failing kind: the fetch rejects, answers non-OK or
   answers a body that is no JSON. *)
LaneFails ==
  /\ hasRedis(deploy)
  /\ fault.site \in {"nearby", "text"}
  /\ fault.kind \in {"throws", "nonOk", "badJson"}

(* A detail fetch that fails: as a lane search, or the body has no result
   with place_id and name. *)
DetailFails ==
  /\ hasRedis(deploy)
  /\ fault.site = "details"
  /\ fault.kind \in {"throws", "nonOk", "badJson", "noResult"}

LaneEntries(entries, lane) == {e \in entries : e.key.lane = lane}

(* The same lane search made again, the provider answering: it is not
   served from the cache but asks the provider and stores the answer. *)
AsksProviderAgain(job, answer) ==
  LaneSearch(job, answer, cache.search, TRUE, NoFault).wrote # {}

(* The same detail fetch made again, the provider answering. *)
FetchesDetailsAgain(placeId) ==
  DetailsCall(placeId, wx.tzOffsetSec, env.now, cache.details, TRUE, NoFault).wrote # {}

(* The lanes of the request's own battery that were answered from the cache
   the request found. *)
ServedFromCache(items, answers, warm) ==
  {k \in DOMAIN items :
     [key |-> [lane |-> items[k].lane, q |-> items[k].q],
      text |-> [json |-> "array", value |-> answers[k]]] \in warm}

LanesAskAgain(items, answers, warm) ==
  \A k \in DOMAIN items :
    items[k].lane = fault.site =>
      AsksProviderAgain(items[k], answers[k]) \/ k \in ServedFromCache(items, answers, warm)

(* C36: where the lane searches of a kind fail, no step writes a search
   entry of that kind, and where the detail fetches fail no step writes a
   details entry; when the request is over, each of those calls made again
   goes to the provider unless the cache held its answer before the
   request. *)
C36_FailuresNotCached ==
  /\ [][/\ LaneFails =>
             LaneEntries(cache'.search, fault.site) = LaneEntries(cache.search, fault.site)
        /\ DetailFails => cache'.details = cache.details]_vars
  /\ []((pc = "done" /\ LaneFails) =>
          LanesAskAgain(AsArray(allJobs(vibe, vegFriendly)), AsArray(LaneAnswers(vibe, vegFriendly)),
                        WarmSearch(vibe, vegFriendly)))
  /\ []((pc = "done" /\ DetailFails) =>
          \A i \in DOMAIN detailCalls :
            \/ FetchesDetailsAgain(detailCalls[i])
            \/ \E e \in WarmDetails(env) :
                  e.key.placeId = detailCalls[i] /\ e.text.json = "object" /\ e \in cache.details)

(* The nearby searches answered non-OK on a cold cache: the request is over,
   the text searches are cached and no nearby search is. *)
C36_Witness ==
  /\ pc = "done"
  /\ response.status = 200
  /\ fault = Fault("nearby", "nonOk")
  /\ hasRedis(deploy)
  /\ LaneEntries(cache.search, "text") # {}
  /\ LaneEntries(cache.search, "nearby") = {}

(* The detail fetches found no result on a cold cache: details were asked
   for and none is cached. *)
DetailsMissingNotCached ==
  /\ pc = "done"
  /\ fault = Fault("details", "noResult")
  /\ hasRedis(deploy)
  /\ Len(detailCalls) > 0
  /\ cache.search # {}
  /\ cache.details = {}

(* The nearby searches were answered without results: the empty lists are
   cached. *)
EmptyListsCached ==
  /\ pc = "done"
  /\ fault = Fault("nearby", "noResult")
  /\ \E e \in LaneEntries(cache.search, "nearby") : e.text = [json |-> "array", value |-> <<>>]

====
